---- MODULE Spec2Model ----
(***************************************************************************)
(* Model of the HTTP request engine of JDMaintainQuoteApiClient           *)
(* (src/app/services/api_clients/jd_maintain_quote_client.py).            *)
(*                                                                         *)
(* The client is an asyncio object: a coroutine runs without interruption *)
(* from one await that suspends to the next, so every action below is the *)
(* code between two such suspension points.  Several _request calls and   *)
(* close() calls of one client are interleaved at those points.           *)
(***************************************************************************)
EXTENDS Integers, Sequences, FiniteSets, TLC

(***************************************************************************)
(* Bounds of the model.                                                    *)
(***************************************************************************)
MaxCalls == 2
MaxCloses == 1

Callers == {"c1", "c2"}

(***************************************************************************)
(* Values of app.core.exceptions and app.core.result as the client uses   *)
(* them.                                                                   *)
(***************************************************************************)
PyNone == [t |-> "None"]

PyTrue == [t |-> "bool", v |-> TRUE]

NoDetails == [k \in {} |-> ""]

ErrorContext(code, message, severity, category, details) ==
    [code |-> code, message |-> message, severity |-> severity,
     category |-> category, details |-> details]

BRIDealException(context) == [cls |-> "BRIDealException", context |-> context]

PyException(cls, msg) == [cls |-> cls, msg |-> msg]

Success(value) == [ok |-> TRUE, value |-> value]

Failure(error) == [ok |-> FALSE, error |-> error]

\* Exception classes that derive from aiohttp.ClientError.
ClientErrorClasses == {"ClientError", "ClientConnectorError", "ClientPayloadError"}

IsClientError(e) == e.cls \in ClientErrorClasses

\* IsBRIDealException when the except BRIDealException clause is missing.
IsBRIDealException_Never(e) == FALSE

IsBRIDealException(e) == e.cls = "BRIDealException"

(***************************************************************************)
(* Texts.  str(status) is ToString, f-strings are concatenations and      *)
(* text[:500] is a prefix.                                                 *)
(***************************************************************************)
ResponseLimit == 500

Min(a, b) == IF a < b THEN a ELSE b

\* Truncated without the slice: the whole text is kept.
Truncated_Whole(text) == text

Truncated(text) == SubSeq(text, 1, Min(Len(text), ResponseLimit))

RECURSIVE Repeat(_, _)
Repeat(ch, n) ==
    IF n = 0 THEN ""
    ELSE LET half == Repeat(ch, n \div 2)
         IN  half \o half \o (IF n % 2 = 1 THEN ch ELSE "")

LongBody == "<html>" \o Repeat("x", 600)

Lower == "abcdefghijklmnopqrstuvwxyz"
UpperLetters == "ABCDEFGHIJKLMNOPQRSTUVWXYZ"

UpperChar(ch) ==
    IF \E i \in 1..Len(Lower) : SubSeq(Lower, i, i) = ch
    THEN LET i == CHOOSE j \in 1..Len(Lower) : SubSeq(Lower, j, j) = ch
         IN  SubSeq(UpperLetters, i, i)
    ELSE ch

RECURSIVE Upper(_)
Upper(s) == IF Len(s) = 0 THEN "" ELSE UpperChar(SubSeq(s, 1, 1)) \o Upper(Tail(s))

(***************************************************************************)
(* json.loads on the part of JSON the model's bodies use: one-digit       *)
(* numbers, null and arrays, without white space.  A parse yields         *)
(* [ok, v, next]; loads fails (JSONDecodeError) unless the whole text is  *)
(* one value.                                                              *)
(***************************************************************************)
Digits == "0123456789"

IsDigit(ch) == \E d \in 1..Len(Digits) : SubSeq(Digits, d, d) = ch

DigitValue(ch) == (CHOOSE d \in 1..Len(Digits) : SubSeq(Digits, d, d) = ch) - 1

CharAt(s, i) == IF i >= 1 /\ i <= Len(s) THEN SubSeq(s, i, i) ELSE ""

ParseFail == [ok |-> FALSE, v |-> PyNone, next |-> 0]

RECURSIVE ParseValue(_, _)
RECURSIVE ParseElements(_, _, _)

ParseValue(s, i) ==
    LET ch == CharAt(s, i) IN
    IF ch = "" THEN ParseFail
    ELSE IF IsDigit(ch)
    THEN [ok |-> TRUE, v |-> [t |-> "int", v |-> DigitValue(ch)], next |-> i + 1]
    ELSE IF ch = "n"
    THEN IF i + 3 <= Len(s) /\ SubSeq(s, i, i + 3) = "null"
         THEN [ok |-> TRUE, v |-> PyNone, next |-> i + 4]
         ELSE ParseFail
    ELSE IF ch = "["
    THEN IF CharAt(s, i + 1) = "]"
         THEN [ok |-> TRUE, v |-> [t |-> "list", v |-> <<>>], next |-> i + 2]
         ELSE ParseElements(s, i + 1, <<>>)
    ELSE ParseFail

ParseElements(s, i, acc) ==
    LET r == ParseValue(s, i) IN
    IF ~r.ok THEN ParseFail
    ELSE IF CharAt(s, r.next) = ","
    THEN ParseElements(s, r.next + 1, Append(acc, r.v))
    ELSE IF CharAt(s, r.next) = "]"
    THEN [ok |-> TRUE, v |-> [t |-> "list", v |-> Append(acc, r.v)], next |-> r.next + 1]
    ELSE ParseFail

\* JsonLoads that swallows a decode error and yields None.
JsonLoads_Swallow(text) ==
    LET r == ParseValue(text, 1) IN
    IF r.ok /\ r.next = Len(text) + 1
    THEN [ok |-> TRUE, v |-> r.v]
    ELSE [ok |-> TRUE, v |-> PyNone]

JsonLoads(text) ==
    LET r == ParseValue(text, 1) IN
    IF r.ok /\ r.next = Len(text) + 1
    THEN [ok |-> TRUE, v |-> r.v]
    ELSE [ok |-> FALSE, v |-> PyNone]

(***************************************************************************)
(* What the callers and the collaborators (credential provider, transport, *)
(* remote server) can hand to the engine.                                  *)
(***************************************************************************)
base_url == "https://jdquote2-api.deere.com"

Dict(v) == [t |-> "dict", v |-> v]

\* The typed endpoint methods the callers use: their arguments to _request.
get_maintain_quote_details ==
    [api |-> "get_maintain_quote_details", method |-> "GET",
     endpoint |-> "/om/maintainquote/api/v1/quotes/Q1/maintain-quote-details",
     data |-> PyNone, params |-> PyNone]

maintain_quotes_general ==
    [api |-> "maintain_quotes_general", method |-> "POST",
     endpoint |-> "/om/maintainquote/api/v1/maintain-quotes",
     data |-> Dict(<<"quote">>), params |-> PyNone]

\* health_check probes with get_maintain_quote_details("HEALTHCHECK_TEST_QUOTE").
health_check ==
    [api |-> "health_check", method |-> "GET",
     endpoint |-> "/om/maintainquote/api/v1/quotes/HEALTHCHECK_TEST_QUOTE/maintain-quote-details",
     data |-> PyNone, params |-> PyNone]

\* Each caller uses its own API method: the calls differ in method, endpoint
\* and body, and the callers are otherwise alike.
ApiCalls ==
    [c \in Callers |-> IF c = "c1" THEN {get_maintain_quote_details}
                                   ELSE {maintain_quotes_general}]

\* delete_quote(quote_id): DELETE without query parameters.
delete_quote ==
    [api |-> "delete_quote", method |-> "DELETE",
     endpoint |-> "/om/maintainquote/api/v1/quotes/Q1",
     data |-> PyNone, params |-> PyNone]

\* delete_equipment_from_quote(quote_id, params=params): the caller gives a
\* mapping, an empty mapping, or nothing.
delete_equipment_from_quote(params) ==
    [api |-> "delete_equipment_from_quote", method |-> "DELETE",
     endpoint |-> "/om/maintainquote/api/v1/quotes/Q1/equipments",
     data |-> PyNone, params |-> params]

\* get_quotes(dealerId): params always holds dealerId.
get_quotes ==
    [api |-> "get_quotes", method |-> "GET",
     endpoint |-> "/om/maintainquote/api/v1/quotes",
     data |-> PyNone, params |-> Dict(<<"dealerId">>)]

update_dealer_maintain_quotes ==
    [api |-> "update_dealer_maintain_quotes", method |-> "PUT",
     endpoint |-> "/om/maintainquote/api/v1/dealers/D1/maintain-quotes",
     data |-> Dict(<<"quote">>), params |-> PyNone]

\* update_quote_dealers(quote_id, dealer_id) without dealer_data: data is {}.
update_quote_dealers ==
    [api |-> "update_quote_dealers", method |-> "POST",
     endpoint |-> "/om/maintainquote/api/v1/quotes/Q1/dealers/D1",
     data |-> Dict(<<>>), params |-> PyNone]

\* _request called directly with the one method that takes a JSON body and
\* that no API method uses.
request_patch ==
    [api |-> "_request", method |-> "PATCH",
     endpoint |-> "/om/maintainquote/api/v1/quotes/Q1",
     data |-> Dict(<<"quote">>), params |-> PyNone]

\* Every API method of the client, with the arguments the callers give.
AllApiCalls ==
    {get_maintain_quote_details, maintain_quotes_general, health_check, delete_quote,
     delete_equipment_from_quote(Dict(<<"equipmentId">>)),
     delete_equipment_from_quote(Dict(<<>>)), delete_equipment_from_quote(PyNone),
     get_quotes, update_dealer_maintain_quotes, update_quote_dealers, request_patch}

NoCall == [api |-> "", method |-> "", endpoint |-> "", data |-> PyNone, params |-> PyNone]

Statuses == {200, 400, 401, 500}

\* The server knows the quotes the callers name and does not know the test
\* quote of health_check: only that read can be answered 404 Not Found.
StatusesOf(call) == IF call.api = "health_check" THEN Statuses \cup {404} ELSE Statuses

Bodies == {"", "[1,2]", "{not json", LongBody}

\* The bearer tokens the credential provider hands out: a fresh one at every
\* get_access_token call of a _request call.
Token(n) == "token" \o ToString(n)

\* Failures the credential provider returns from get_access_token.
ProviderErrors ==
    {BRIDealException(ErrorContext("AUTH_TEST_FAILURE", "Auth token fetch failed",
                                   "CRITICAL", "AUTHENTICATION",
                                   [reason |-> "mocked_auth_failure"]))}

\* Exceptions a collaborator call (get_access_token, refresh_token) can raise.
CollaboratorRaises ==
    {PyException("ClientConnectorError", "Cannot connect to host"),
     PyException("RuntimeError", "provider failed"),
     BRIDealException(ErrorContext("JD_AUTH_ERROR", "Token endpoint rejected the client",
                                   "HIGH", "AUTHENTICATION", NoDetails))}

\* Exceptions of the send: connection refused or DNS failure (a ClientError),
\* and the expiry of ClientTimeout(total=...), which aiohttp raises as
\* asyncio.TimeoutError, a class outside the ClientError hierarchy.
TransportErrors ==
    {PyException("ClientConnectorError", "Cannot connect to host"),
     PyException("TimeoutError", "")}

\* Exceptions of reading the body with response.text().
BodyReadErrors == {PyException("ClientPayloadError", "Response payload is not completed")}

VARIABLES
    is_operational,  \* auth_manager.is_operational
    session,         \* self.session: 0 is None, else an index into sessions
    sessions,        \* every ClientSession created so far: "open" or "closed"
    lock,            \* self._lock: "free" or "held"
    close_pc,        \* position of the close() coroutine
    closes,          \* close() calls made so far
    calls,           \* API method calls made so far
    pc,              \* position of each caller's _request coroutine
    args,            \* arguments of the caller's _request call
    attempt,         \* loop variable of for attempt in range(2)
    sent,            \* HTTP requests the call has sent
    requests,        \* what was sent: method, url, kwargs, session
    responses,       \* responses the call has received
    send_error,      \* the exception the transport raised from the send, if any
    token_calls,     \* auth_manager.get_access_token calls of the call
    token_outcomes,  \* how each of them ended
    refresh_calls,   \* auth_manager.refresh_token calls of the call
    refresh_outcome, \* how refresh_token ended: "none", "success", "failure", "raised"
    result,          \* the Result _request returns, or the exception it lets escape
    health,          \* the Result health_check returns
    events           \* history: the collaborator calls of the call, in order

NoResult == [ok |-> FALSE, pending |-> TRUE]

(***************************************************************************)
(* The background workers of src/temp_threading.py and of the dashboard   *)
(* view: one record of state per dispatched worker object.                *)
(***************************************************************************)
VARIABLES
    worker_class,    \* which run() the worker object has
    worker_pc,       \* "idle", "queued", "running", "done"
    is_cancelled,    \* Worker.is_cancelled / AsyncWorker.is_cancelled
    loop_stopped,    \* AsyncWorker.cancel() reached the running event loop
    fn_outcome,      \* what the callable did: returned a value or raised
    emitted          \* the signals the worker emitted, in order

workerVars == <<worker_class, worker_pc, is_cancelled, loop_stopped, fn_outcome,
                emitted>>

clientVars == <<is_operational, session, sessions, lock, close_pc, closes, calls, pc, args,
                attempt, sent, requests, responses, send_error, token_calls,
                token_outcomes, refresh_calls, refresh_outcome, result, health, events>>

(***************************************************************************)
(* HomePageDashboardView: the two trend charts, each observed through the *)
(* calls the last data or error handler made on it.                       *)
(***************************************************************************)
VARIABLES
    handler_input,   \* what the last handler of the chart was given
    chart_calls      \* the calls that handler made on the chart widget

chartVars == <<handler_input, chart_calls>>

\* self.usdcad_chart_widget and self.btc_chart_widget, lines 410 and 423.
Charts == {"usdcad_chart_widget", "btc_chart_widget"}

NoInput == [kind |-> "none"]

ChartInit ==
    /\ handler_input = [ch \in Charts |-> NoInput]
    /\ chart_calls = [ch \in Charts |-> <<>>]

(***************************************************************************)
(* JDQuoteApiClient of src/temp_jd_quote_client.py: one caller, one call  *)
(* at a time.                                                             *)
(***************************************************************************)
VARIABLES
    quote_pc,         \* position of the _request coroutine
    quote_call,       \* the method called and the arguments of its _request
    quote_responses,  \* the responses received by the call, in order
    quote_refreshed,  \* refresh_access_token was awaited and returned
    quote_result,     \* what _request returned
    quote_health      \* what health_check returned

quoteVars == <<quote_pc, quote_call, quote_responses, quote_refreshed, quote_result,
               quote_health>>

NoQuoteCall == [api |-> "", method |-> "", endpoint |-> ""]

QuoteInit ==
    /\ quote_pc = "idle"
    /\ quote_call = NoQuoteCall
    /\ quote_responses = <<>>
    /\ quote_refreshed = FALSE
    /\ quote_result = NoResult
    /\ quote_health = NoResult

(***************************************************************************)
(* MaintainQuotesAPI of maintain_quotes_api.py: the service object, once  *)
(* constructed, and the last operation called on it.                      *)
(***************************************************************************)
VARIABLES
    service,          \* the attributes __init__ set, or NotConstructed
    service_op,       \* the last operation called on the service
    service_outcome,  \* what that operation returned or raised
    client_calls      \* the client methods that operation invoked

serviceVars == <<service, service_op, service_outcome, client_calls>>

NotConstructed == [constructed |-> FALSE]

NoOperation == [name |-> "", id |-> ""]

ServiceInit ==
    /\ service = NotConstructed
    /\ service_op = NoOperation
    /\ service_outcome = [kind |-> "none"]
    /\ client_calls = <<>>

\* GetQuotesView (get_quotes_view.py): the three line edits, the Get Quotes
\* button, the results display, the last message box shown, the fetch task
\* handed to the task manager, the done callbacks registered for it and the
\* exception that escaped the last press of the button.
VARIABLES view, line_edits, get_quotes_button, results_display, message_box,
          fetch_task, done_callbacks, press_raised

viewVars == <<view, line_edits, get_quotes_button, results_display, message_box,
              fetch_task, done_callbacks, press_raised>>

NoFetchTask == [state |-> "none", counter |-> 0]

ViewInit ==
    /\ view = [constructed |-> FALSE, jd_quote_service |-> FALSE]
    /\ line_edits = [dealer_racf_id_edit |-> "x950700", start_date_edit |-> "",
                     end_date_edit |-> ""]
    /\ get_quotes_button = [enabled |-> TRUE]
    /\ results_display = ""
    /\ message_box = ""
    /\ fetch_task = NoFetchTask
    /\ done_callbacks = {}
    /\ press_raised = "none"

\* TaskManager (app/core/threading.py): _task_counter, the active_tasks dict
\* (task id -> position of its worker in tm_workers), every worker created so
\* far with its id, class, life cycle and is_cancelled flag, the manager call
\* in progress on the thread that owns the manager, and the value the last
\* completed call returned.
VARIABLES tm_task_counter, tm_active_tasks, tm_workers, tm_call, tm_returned

taskVars == <<tm_task_counter, tm_active_tasks, tm_workers, tm_call, tm_returned>>

NoManagerCall == [op |-> "none", index |-> 0]

TaskInit ==
    /\ tm_task_counter = 0
    /\ tm_active_tasks = <<>>
    /\ tm_workers = <<>>
    /\ tm_call = NoManagerCall
    /\ tm_returned = [op |-> "none"]

\* AsyncTaskManager (app/core/threading.py): the asyncio tasks created so far
\* (the task of id i is atm_tasks[i]), the keys of active_tasks, the
\* task_results dict, and every coroutine that calls wait_for_task.
VARIABLES atm_tasks, atm_active_tasks, atm_task_results, atm_waits

asyncVars == <<atm_tasks, atm_active_tasks, atm_task_results, atm_waits>>

Waiters == {"a", "b"}

NotWaiting == [state |-> "idle"]

AsyncInit ==
    /\ atm_tasks = <<>>
    /\ atm_active_tasks = {}
    /\ atm_task_results = <<>>
    /\ atm_waits = [w \in Waiters |-> NotWaiting]

otherVars == <<workerVars, chartVars, quoteVars, serviceVars, viewVars, taskVars, asyncVars>>

vars == <<clientVars, otherVars>>

\* Everything but the variables of one part of the program.
notWorkerVars == <<clientVars, chartVars, quoteVars, serviceVars, viewVars, taskVars, asyncVars>>

notChartVars == <<clientVars, workerVars, quoteVars, serviceVars, viewVars, taskVars, asyncVars>>

notQuoteVars == <<clientVars, workerVars, chartVars, serviceVars, viewVars, taskVars, asyncVars>>

notServiceVars == <<clientVars, workerVars, chartVars, quoteVars, viewVars, taskVars, asyncVars>>

notViewVars == <<clientVars, workerVars, chartVars, quoteVars, serviceVars, taskVars, asyncVars>>

notTaskVars == <<clientVars, workerVars, chartVars, quoteVars, serviceVars, viewVars, asyncVars>>

notAsyncVars == <<clientVars, workerVars, chartVars, quoteVars, serviceVars, viewVars, taskVars>>

Workers == {"w1", "w2"}

NoOutcome == [kind |-> "none"]

WorkerInit ==
    /\ worker_class = [w \in Workers |-> "none"]
    /\ worker_pc = [w \in Workers |-> "idle"]
    /\ is_cancelled = [w \in Workers |-> FALSE]
    /\ loop_stopped = [w \in Workers |-> FALSE]
    /\ fn_outcome = [w \in Workers |-> NoOutcome]
    /\ emitted = [w \in Workers |-> <<>>]

OtherInit == WorkerInit /\ ChartInit /\ QuoteInit /\ ServiceInit /\ ViewInit /\ TaskInit /\ AsyncInit

sessionVars == <<session, sessions, lock, close_pc, closes>>

NoException == PyException("", "")

\* full_url without the base URL.
full_url_EndpointOnly(c) == args[c].endpoint

\* full_url = f"{self.base_url}{endpoint}", line 85.
full_url(c) == base_url \o args[c].endpoint

Init ==
    /\ is_operational \in BOOLEAN
    /\ session = 0
    /\ sessions = <<>>
    /\ lock = "free"
    /\ close_pc = "idle"
    /\ closes = 0
    /\ calls = 0
    /\ pc = [c \in Callers |-> "idle"]
    /\ args = [c \in Callers |-> NoCall]
    /\ attempt = [c \in Callers |-> 0]
    /\ sent = [c \in Callers |-> 0]
    /\ requests = [c \in Callers |-> <<>>]
    /\ responses = [c \in Callers |-> <<>>]
    /\ send_error = [c \in Callers |-> NoException]
    /\ token_calls = [c \in Callers |-> 0]
    /\ token_outcomes = [c \in Callers |-> <<>>]
    /\ refresh_calls = [c \in Callers |-> 0]
    /\ refresh_outcome = [c \in Callers |-> "none"]
    /\ result = [c \in Callers |-> NoResult]
    /\ health = [c \in Callers |-> NoResult]
    /\ events = [c \in Callers |-> <<>>]
    /\ OtherInit

(***************************************************************************)
(* _request: the except clauses, lines 132-158.  The clauses are tried in *)
(* order: aiohttp.ClientError, BRIDealException, Exception.  An exception *)
(* that no clause catches leaves _request: Raised.                        *)
(***************************************************************************)
Raised(e) == [ok |-> FALSE, raised |-> e]

\* Classes that derive from BaseException but not from Exception.
BaseExceptionOnly == {"CancelledError", "KeyboardInterrupt", "SystemExit"}

\* IsException when the except Exception clause is missing.
IsException_Never(e) == FALSE

IsException(e) == e.cls \notin BaseExceptionOnly

\* str(e), the text of an exception.
ExceptionText(e) == IF "msg" \in DOMAIN e THEN e.msg ELSE e.context.message

HandleException(e, url, method) ==
    IF IsClientError(e)
    THEN Failure(BRIDealException(ErrorContext(
             "AIOHTTP_CLIENT_ERROR", "Network or HTTP error: " \o ExceptionText(e), "HIGH", "NETWORK",
             [url |-> url, method |-> method, error_type |-> e.cls,
              original_error |-> ExceptionText(e)])))
    ELSE IF IsBRIDealException(e)
    THEN Failure(e)
    ELSE IF IsException(e)
    THEN Failure(BRIDealException(ErrorContext(
             "UNEXPECTED_CLIENT_ERROR", "An unexpected error occurred: " \o ExceptionText(e),
             "CRITICAL", "SYSTEM",
             [url |-> url, method |-> method, error_type |-> e.cls])))
    ELSE Raised(e)

(***************************************************************************)
(* _request: the classification of a response that is not retried, lines  *)
(* 103-130.                                                                *)
(***************************************************************************)
\* IsErrorStatus that takes only server errors for errors.
IsErrorStatus_ServerOnly(status) == status >= 500

\* IsErrorStatus with > for >=.
IsErrorStatus_Above400(status) == status > 400

\* if response.status >= 400, line 105.
IsErrorStatus(status) == status >= 400

\* IsEmptyBody with the test inverted.
IsEmptyBody_Inverted(response_text) == response_text # ""

\* IsEmptyBody when the test is missing: every body goes to json.loads.
IsEmptyBody_Never(response_text) == FALSE

\* if not response_text, line 116.
IsEmptyBody(response_text) == response_text = ""

ClassifyResponse(status, response_text, url, method) ==
    IF IsErrorStatus(status)
    THEN Failure(BRIDealException(ErrorContext(
             "API_ERROR_" \o ToString(status), "API Error: " \o ToString(status),
             "HIGH", "NETWORK",
             [url |-> url, method |-> method, status |-> status,
              response |-> Truncated(response_text)])))
    ELSE IF IsEmptyBody(response_text)
    THEN Success(PyNone)
    ELSE IF JsonLoads(response_text).ok
    THEN Success(JsonLoads(response_text).v)
    ELSE Failure(BRIDealException(ErrorContext(
             "JSON_DECODE_ERROR", "Failed to decode JSON response", "HIGH", "NETWORK",
             [url |-> url, method |-> method, response |-> Truncated(response_text)])))

\* The Failure after the loop, lines 160-168.
TokenRefreshFailure(url, method) ==
    Failure(BRIDealException(ErrorContext(
        "TOKEN_REFRESH_FAILURE", "Request failed after token refresh attempt.",
        "HIGH", "AUTHENTICATION", [url |-> url, method |-> method])))

\* ShouldRetry without the attempt test: every 401 is retried.
ShouldRetry_Every401(status, att) == status = 401

\* ShouldRetry that also retries server errors.
ShouldRetry_ServerErrors(status, att) == (status = 401 \/ status >= 500) /\ att = 0

\* if response.status == 401 and attempt == 0, line 98.
ShouldRetry(status, att) == status = 401 /\ att = 0

\* for attempt in range(2), line 87: the bound of the loop and its step.
Attempts == 2

\* NextAttempt of a loop that does not count its iterations.
NextAttempt_Same(att) == att

NextAttempt(att) == att + 1

\* NotOperational without the test.
NotOperational_Unchecked == FALSE

\* if not self.auth_manager.is_operational, line 52.
NotOperational == ~is_operational

\* _get_headers, lines 66-70.
Headers(token) == [Authorization |-> "Bearer " \o token, Accept |-> "application/json"]

\* AttemptHeaders of a loop that keeps the headers of its first attempt.
AttemptHeaders_Reused(c, token) ==
    IF Len(requests[c]) = 0 THEN Headers(token) ELSE requests[c][1].kwargs.headers

\* headers = await self._get_headers(), line 89: fetched in every attempt.
AttemptHeaders(c, token) == Headers(token)

\* Truthy that takes everything but None for true.
Truthy_NotNone(v) == v # PyNone

\* The truth value of an optional mapping: None and {} are false.
Truthy(v) == v # PyNone /\ v # Dict(<<>>)

\* request_kwargs, lines 91-95.
RequestKwargs(headers, method, data, params) ==
    LET keys == {"headers"}
                \cup (IF Truthy(params) THEN {"params"} ELSE {})
                \cup (IF Upper(method) \in {"POST", "PUT", "PATCH"} THEN {"json"} ELSE {})
    IN  [k \in keys |-> CASE k = "headers" -> headers
                          [] k = "params" -> params
                          [] k = "json" -> data]

(***************************************************************************)
(* health_check, lines 309-370, after its probe returned.                 *)
(***************************************************************************)
\* vars(obj): the attributes of an object as a dict.
Vars(obj) == [k \in DOMAIN obj |-> obj[k]]

\* IsNotFound that takes every failure with a status for a 404.
IsNotFound_AnyStatus(error) ==
    /\ "context" \in DOMAIN error
    /\ error.context.details # NoDetails
    /\ "status" \in DOMAIN error.context.details

\* The test of lines 330-333: the error has a context with non-empty details
\* whose status is 404.
IsNotFound(error) ==
    /\ "context" \in DOMAIN error
    /\ error.context.details # NoDetails
    /\ "status" \in DOMAIN error.context.details
    /\ error.context.details.status = 404

HealthCheckResult(r) ==
    IF r.ok
    THEN Success(PyTrue)
    ELSE IF IsNotFound(r.error)
    THEN Success(PyTrue)
    ELSE IF "context" \in DOMAIN r.error
    THEN Failure(BRIDealException(ErrorContext(
             "HEALTH_CHECK_API_FAILURE", "JD Maintain Quote API health check failed.",
             "MEDIUM", "NETWORK", Vars(r.error.context))))
    ELSE Failure(BRIDealException(ErrorContext(
             "HEALTH_CHECK_API_FAILURE_MINIMAL",
             "JD Maintain Quote API health check failed with minimal error information.",
             "MEDIUM", "NETWORK", [original_error |-> ExceptionText(r.error)])))

(***************************************************************************)
(* A caller invokes one of the API methods, which calls _request.         *)
(* health_check returns at once when the client is not operational        *)
(* (lines 310-317).                                                        *)
(***************************************************************************)
Invoke(c, a) ==
    /\ pc[c] = "idle"
    /\ calls < MaxCalls
    /\ args' = [args EXCEPT ![c] = a]
    /\ calls' = calls + 1
    /\ IF a.api = "health_check" /\ ~is_operational
       THEN /\ pc' = [pc EXCEPT ![c] = "health_done"]
            /\ health' = [health EXCEPT ![c] = Failure(BRIDealException(ErrorContext(
                   "HEALTH_CHECK_NOT_OPERATIONAL",
                   "JDMaintainQuoteApiClient is not operational (auth manager issue or configuration).",
                   "MEDIUM", "SYSTEM", NoDetails)))]
       ELSE /\ pc' = [pc EXCEPT ![c] = "ensure"]
            /\ UNCHANGED health
    /\ UNCHANGED <<otherVars, is_operational, sessionVars, attempt, sent, requests, responses,
                   send_error, token_calls, token_outcomes, refresh_calls,
                   refresh_outcome, result, events>>

Call(c) == \E a \in ApiCalls[c] : Invoke(c, a)

\* The call ends: a return statement of _request, or an exception escapes.
\* health_check goes on with the Result of its probe without suspending.
Finish(c, r) ==
    /\ pc' = [pc EXCEPT ![c] = IF "raised" \in DOMAIN r THEN "raised" ELSE "done"]
    /\ result' = [result EXCEPT ![c] = r]
    /\ health' = [health EXCEPT ![c] =
            IF args[c].api = "health_check" /\ "raised" \notin DOMAIN r
            THEN HealthCheckResult(r)
            ELSE @]

(***************************************************************************)
(* The head of an iteration of the loop (line 87) and _get_headers up to  *)
(* its await (lines 52-61).  When the loop is exhausted the code after it *)
(* runs (lines 160-168).                                                   *)
(***************************************************************************)
BeginAttempt(c, att) ==
    /\ attempt' = [attempt EXCEPT ![c] = att]
    /\ IF att >= Attempts
       THEN /\ Finish(c, TokenRefreshFailure(full_url(c), args[c].method))
            /\ UNCHANGED <<token_calls, events>>
       ELSE IF NotOperational
       THEN /\ Finish(c, HandleException(
                   BRIDealException(ErrorContext(
                       "AUTH_MANAGER_NOT_OPERATIONAL",
                       "JD Auth Manager not configured or not operational.",
                       "CRITICAL", "AUTHENTICATION", NoDetails)),
                   full_url(c), args[c].method))
            /\ UNCHANGED <<token_calls, events>>
       ELSE /\ pc' = [pc EXCEPT ![c] = "token"]
            /\ token_calls' = [token_calls EXCEPT ![c] = @ + 1]
            /\ events' = [events EXCEPT ![c] = Append(@, "get_access_token")]
            /\ UNCHANGED <<result, health>>

(***************************************************************************)
(* _request, lines 75-89: _ensure_session (lines 29-32) runs once the     *)
(* lock is free, then the session check and the head of attempt 0.        *)
(***************************************************************************)
\* NeedsSession of a client that creates its session once and never again.
NeedsSession_OnlyFirst == Len(sessions) = 0

\* if self.session is None or self.session.closed, line 31.
NeedsSession == session = 0 \/ sessions[session] = "closed"

EnsureSession(c) ==
    /\ pc[c] = "ensure"
    /\ lock = "free"
    /\ IF NeedsSession
       THEN /\ sessions' = Append(sessions, "open")
            /\ session' = Len(sessions) + 1
       ELSE UNCHANGED <<session, sessions>>
    /\ IF session' = 0
       THEN /\ Finish(c, Failure(BRIDealException(ErrorContext(
                   "SESSION_NOT_INITIALIZED", "Session not initialized",
                   "CRITICAL", "SYSTEM", NoDetails))))
            /\ UNCHANGED <<attempt, token_calls, events>>
       ELSE BeginAttempt(c, 0)
    /\ UNCHANGED <<otherVars, is_operational, lock, close_pc, closes, calls, args, sent, requests,
                   responses, send_error, token_outcomes, refresh_calls, refresh_outcome>>

(***************************************************************************)
(* get_access_token returns or raises; _get_headers ends (lines 61-70),   *)
(* the kwargs are built and self.session.request is entered (lines 91-97):*)
(* without a session object the attribute access fails, on a closed       *)
(* session aiohttp raises RuntimeError before anything is sent.           *)
(***************************************************************************)
\* RequestError of a session object that does not test whether it is closed.
RequestError_ClosedIgnored ==
    IF session = 0
    THEN PyException("AttributeError", "'NoneType' object has no attribute 'request'")
    ELSE NoException

\* What self.session.request raises before anything is sent (line 97).
RequestError ==
    IF session = 0
    THEN PyException("AttributeError", "'NoneType' object has no attribute 'request'")
    ELSE IF sessions[session] = "closed"
    THEN PyException("RuntimeError", "Session is closed")
    ELSE NoException

SendRequest(c, token) ==
    IF RequestError # NoException
    THEN /\ Finish(c, HandleException(RequestError, full_url(c), args[c].method))
         /\ UNCHANGED <<sent, requests, events>>
    ELSE /\ sent' = [sent EXCEPT ![c] = @ + 1]
         /\ events' = [events EXCEPT ![c] = Append(@, "send")]
         /\ requests' = [requests EXCEPT ![c] = Append(@,
                [method |-> args[c].method, url |-> full_url(c), session |-> session,
                 kwargs |-> RequestKwargs(AttemptHeaders(c, token), args[c].method,
                                          args[c].data, args[c].params)])]
         /\ pc' = [pc EXCEPT ![c] = "send"]
         /\ UNCHANGED <<result, health>>

TokenReturn(c) ==
    /\ pc[c] = "token"
    /\ \/ \E token \in {Token(token_calls[c])} :
            /\ token_outcomes' = [token_outcomes EXCEPT ![c] =
                    Append(@, [kind |-> "success", token |-> token])]
            /\ SendRequest(c, token)
       \/ \E e \in ProviderErrors :
            \* if token_result.is_failure(): raise token_result.error
            /\ token_outcomes' = [token_outcomes EXCEPT ![c] =
                    Append(@, [kind |-> "failure", error |-> e])]
            /\ Finish(c, HandleException(e, full_url(c), args[c].method))
            /\ UNCHANGED <<sent, requests, events>>
       \/ \E e \in CollaboratorRaises :
            /\ token_outcomes' = [token_outcomes EXCEPT ![c] =
                    Append(@, [kind |-> "raised", error |-> e])]
            /\ Finish(c, HandleException(e, full_url(c), args[c].method))
            /\ UNCHANGED <<sent, requests, events>>
    /\ UNCHANGED <<otherVars, is_operational, sessionVars, calls, args, attempt, responses,
                   send_error, token_calls, refresh_calls, refresh_outcome>>

(***************************************************************************)
(* The send ends: the transport raises, or a response arrives and is      *)
(* either retried (lines 98-101, refresh_token is called) or read and     *)
(* classified (lines 103-130).                                             *)
(***************************************************************************)
ResponseReturn(c) ==
    /\ pc[c] = "send"
    /\ \/ \E e \in TransportErrors :
            /\ send_error' = [send_error EXCEPT ![c] = e]
            /\ Finish(c, HandleException(e, full_url(c), args[c].method))
            /\ UNCHANGED <<responses, refresh_calls, events>>
       \/ \E status \in StatusesOf(args[c]) :
            /\ UNCHANGED send_error
            /\ IF ShouldRetry(status, attempt[c])
               THEN /\ responses' = [responses EXCEPT ![c] =
                           Append(@, [status |-> status, read |-> "unread", text |-> ""])]
                    /\ refresh_calls' = [refresh_calls EXCEPT ![c] = @ + 1]
                    /\ events' = [events EXCEPT ![c] = Append(@, "refresh_token")]
                    /\ pc' = [pc EXCEPT ![c] = "refresh"]
                    /\ UNCHANGED <<result, health>>
               ELSE \/ \E text \in Bodies :
                         /\ responses' = [responses EXCEPT ![c] =
                                Append(@, [status |-> status, read |-> "text",
                                           text |-> text])]
                         /\ Finish(c, ClassifyResponse(status, text, full_url(c),
                                                       args[c].method))
                         /\ UNCHANGED <<refresh_calls, events>>
                    \/ \E e \in BodyReadErrors :
                         /\ responses' = [responses EXCEPT ![c] =
                                Append(@, [status |-> status, read |-> "error",
                                           text |-> ""])]
                         /\ Finish(c, HandleException(e, full_url(c), args[c].method))
                         /\ UNCHANGED <<refresh_calls, events>>
    /\ UNCHANGED <<otherVars, is_operational, sessionVars, calls, args, attempt, sent, requests,
                   token_calls, token_outcomes, refresh_outcome>>

(***************************************************************************)
(* refresh_token returns or raises (line 100).  Its Result is dropped:    *)
(* continue starts the next iteration (line 101).                         *)
(***************************************************************************)
\* RefreshEndsCall of a client that consults the Result of refresh_token.
RefreshEndsCall_OnFailure(r) == r = "failure"

\* await self.auth_manager.refresh_token(), line 100: the Result is bound to
\* no name, so no Result ends the call.
RefreshEndsCall(r) == FALSE

RefreshReturn(c) ==
    /\ pc[c] = "refresh"
    /\ \/ \E r \in {"success", "failure"} :
            /\ refresh_outcome' = [refresh_outcome EXCEPT ![c] = r]
            /\ IF RefreshEndsCall(r)
               THEN /\ Finish(c, TokenRefreshFailure(full_url(c), args[c].method))
                    /\ UNCHANGED <<attempt, token_calls, events>>
               ELSE BeginAttempt(c, NextAttempt(attempt[c]))
       \/ \E e \in CollaboratorRaises :
            /\ refresh_outcome' = [refresh_outcome EXCEPT ![c] = "raised"]
            /\ Finish(c, HandleException(e, full_url(c), args[c].method))
            /\ UNCHANGED <<attempt, token_calls, events>>
    /\ UNCHANGED <<otherVars, is_operational, sessionVars, calls, args, sent, requests, responses,
                   send_error, token_outcomes, refresh_calls>>

\* The caller takes the Result (or the exception); the frame of the call is gone.
Return(c) ==
    /\ pc[c] \in {"done", "raised", "health_done"}
    /\ pc' = [pc EXCEPT ![c] = "idle"]
    /\ args' = [args EXCEPT ![c] = NoCall]
    /\ attempt' = [attempt EXCEPT ![c] = 0]
    /\ sent' = [sent EXCEPT ![c] = 0]
    /\ requests' = [requests EXCEPT ![c] = <<>>]
    /\ responses' = [responses EXCEPT ![c] = <<>>]
    /\ send_error' = [send_error EXCEPT ![c] = NoException]
    /\ token_calls' = [token_calls EXCEPT ![c] = 0]
    /\ token_outcomes' = [token_outcomes EXCEPT ![c] = <<>>]
    /\ refresh_calls' = [refresh_calls EXCEPT ![c] = 0]
    /\ refresh_outcome' = [refresh_outcome EXCEPT ![c] = "none"]
    /\ result' = [result EXCEPT ![c] = NoResult]
    /\ health' = [health EXCEPT ![c] = NoResult]
    /\ events' = [events EXCEPT ![c] = <<>>]
    /\ UNCHANGED <<otherVars, is_operational, sessionVars, calls>>

(***************************************************************************)
(* close(), lines 372-373, is _close_session, lines 34-38: under the lock *)
(* an open session is closed (the await of session.close()), and only     *)
(* then self.session becomes None and the lock is released.               *)
(***************************************************************************)
CloseSession ==
    /\ close_pc = "idle"
    /\ closes < MaxCloses
    /\ lock = "free"
    /\ closes' = closes + 1
    /\ IF session # 0 /\ sessions[session] = "open"
       THEN /\ lock' = "held"
            /\ sessions' = [sessions EXCEPT ![session] = "closed"]
            /\ close_pc' = "closing"
       ELSE UNCHANGED <<lock, sessions, close_pc>>
    /\ UNCHANGED <<otherVars, is_operational, session, calls, pc, args, attempt, sent, requests,
                   responses, send_error, token_calls, token_outcomes, refresh_calls,
                   refresh_outcome, result, health, events>>

CloseSessionDone ==
    /\ close_pc = "closing"
    /\ session' = 0
    /\ lock' = "free"
    /\ close_pc' = "idle"
    /\ UNCHANGED <<otherVars, is_operational, sessions, closes, calls, pc, args, attempt, sent,
                   requests, responses, send_error, token_calls, token_outcomes,
                   refresh_calls, refresh_outcome, result, health, events>>

Next ==
    \/ \E c \in Callers : Call(c)
    \/ \E c \in Callers : EnsureSession(c)
    \/ \E c \in Callers : TokenReturn(c)
    \/ \E c \in Callers : ResponseReturn(c)
    \/ \E c \in Callers : RefreshReturn(c)
    \/ \E c \in Callers : Return(c)
    \/ CloseSession
    \/ CloseSessionDone

Spec == Init /\ [][Next]_vars

(***************************************************************************)
(* One caller that uses every API method of the client, with close().     *)
(***************************************************************************)
ApiCaller == "c1"

ApiNext ==
    \/ \E a \in AllApiCalls : Invoke(ApiCaller, a)
    \/ EnsureSession(ApiCaller)
    \/ TokenReturn(ApiCaller)
    \/ ResponseReturn(ApiCaller)
    \/ RefreshReturn(ApiCaller)
    \/ Return(ApiCaller)
    \/ CloseSession
    \/ CloseSessionDone

ApiSpec == Init /\ [][ApiNext]_vars

(***************************************************************************)
(* The event loop runs every coroutine that can run, and every awaited    *)
(* collaborator call returns or raises.                                    *)
(***************************************************************************)
Step(c) == EnsureSession(c) \/ TokenReturn(c) \/ ResponseReturn(c) \/ RefreshReturn(c)

LiveSpec ==
    /\ Spec
    /\ \A c \in Callers : WF_vars(Step(c))
    /\ WF_vars(CloseSessionDone)

(***************************************************************************)
(* The callers as AsyncWorker threads (src/temp_threading.py, lines       *)
(* 76-83): every worker runs its coroutine on an event loop of its own,   *)
(* in its own thread, so the calls on one client are interleaved between  *)
(* the reads and writes of the attributes, not only at the awaits.        *)
(* asyncio.Lock is not made for threads: acquire tests _locked and then   *)
(* sets it, and _ensure_session tests self.session and then assigns it.   *)
(* A thread that finds the lock held waits.                                *)
(***************************************************************************)
\* Lock.acquire reads _locked (async with self._lock, line 30).
ThreadLockTest(c) ==
    /\ pc[c] = "ensure"
    /\ lock = "free"
    /\ pc' = [pc EXCEPT ![c] = "lock_seen_free"]
    /\ UNCHANGED <<otherVars, is_operational, sessionVars, calls, args, attempt, sent, requests,
                   responses, send_error, token_calls, token_outcomes, refresh_calls,
                   refresh_outcome, result, health, events>>

\* Lock.acquire sets _locked.
ThreadLockSet(c) ==
    /\ pc[c] = "lock_seen_free"
    /\ lock' = "held"
    /\ pc' = [pc EXCEPT ![c] = "locked"]
    /\ UNCHANGED <<otherVars, is_operational, session, sessions, close_pc, closes, calls, args,
                   attempt, sent, requests, responses, send_error, token_calls,
                   token_outcomes, refresh_calls, refresh_outcome, result, health, events>>

\* if self.session is None or self.session.closed, line 31.
ThreadSessionTest(c) ==
    /\ pc[c] = "locked"
    /\ pc' = [pc EXCEPT ![c] = IF NeedsSession THEN "create" ELSE "release"]
    /\ UNCHANGED <<otherVars, is_operational, sessionVars, calls, args, attempt, sent, requests,
                   responses, send_error, token_calls, token_outcomes, refresh_calls,
                   refresh_outcome, result, health, events>>

\* self.session = aiohttp.ClientSession(timeout=self.timeout), line 32.
ThreadSessionCreate(c) ==
    /\ pc[c] = "create"
    /\ sessions' = Append(sessions, "open")
    /\ session' = Len(sessions) + 1
    /\ pc' = [pc EXCEPT ![c] = "release"]
    /\ UNCHANGED <<otherVars, is_operational, lock, close_pc, closes, calls, args, attempt, sent,
                   requests, responses, send_error, token_calls, token_outcomes,
                   refresh_calls, refresh_outcome, result, health, events>>

\* The lock is released; _request goes on with lines 76-89.
ThreadLockRelease(c) ==
    /\ pc[c] = "release"
    /\ lock' = "free"
    /\ IF session = 0
       THEN /\ Finish(c, Failure(BRIDealException(ErrorContext(
                   "SESSION_NOT_INITIALIZED", "Session not initialized",
                   "CRITICAL", "SYSTEM", NoDetails))))
            /\ UNCHANGED <<attempt, token_calls, events>>
       ELSE BeginAttempt(c, 0)
    /\ UNCHANGED <<otherVars, is_operational, session, sessions, close_pc, closes, calls, args,
                   sent, requests, responses, send_error, token_outcomes, refresh_calls,
                   refresh_outcome>>

ThreadNext ==
    \/ \E c \in Callers : Call(c)
    \/ \E c \in Callers : ThreadLockTest(c)
    \/ \E c \in Callers : ThreadLockSet(c)
    \/ \E c \in Callers : ThreadSessionTest(c)
    \/ \E c \in Callers : ThreadSessionCreate(c)
    \/ \E c \in Callers : ThreadLockRelease(c)
    \/ \E c \in Callers : TokenReturn(c)
    \/ \E c \in Callers : ResponseReturn(c)
    \/ \E c \in Callers : RefreshReturn(c)
    \/ \E c \in Callers : Return(c)
    \/ CloseSession
    \/ CloseSessionDone

ThreadSpec == Init /\ [][ThreadNext]_vars

TypeOK ==
    /\ session \in 0..Len(sessions)
    /\ lock \in {"free", "held"}
    /\ \A c \in Callers :
         pc[c] \in {"idle", "ensure", "token", "send", "refresh", "done", "raised",
                    "health_done", "lock_seen_free", "locked", "create", "release"}

(***************************************************************************)
(* Observations the properties below are stated with.                     *)
(***************************************************************************)
Returned(c) == pc[c] = "done"

Ended(c) == pc[c] \in {"done", "raised"}

IsFailure(c) == Returned(c) /\ ~result[c].ok /\ "error" \in DOMAIN result[c]

Context(c) == result[c].error.context

LastResponse(c) == responses[c][Len(responses[c])]

LastRequest(c) == requests[c][Len(requests[c])]

LastToken(c) == token_outcomes[c][Len(token_outcomes[c])]

EndsWith(text, suffix) ==
    /\ Len(text) >= Len(suffix)
    /\ SubSeq(text, Len(text) - Len(suffix) + 1, Len(text)) = suffix

\* Every attempt of the loop was answered, and answered with 401; the token
\* fetches and the refresh succeeded and the last body could be read.
EveryAttempt401(c) ==
    /\ Ended(c)
    /\ Len(responses[c]) = Attempts
    /\ \A i \in 1..Len(responses[c]) : responses[c][i].status = 401
    /\ LastResponse(c).read # "error"
    /\ \A i \in 1..Len(token_outcomes[c]) : token_outcomes[c][i].kind = "success"
    /\ refresh_outcome[c] = "success"

ExpectedJson ==
    [text \in {"[1,2]"} |->
        [t |-> "list", v |-> <<[t |-> "int", v |-> 1], [t |-> "int", v |-> 2]>>]]

RetryThenJson(c) ==
    /\ Ended(c)
    /\ Len(responses[c]) = 2
    /\ responses[c][1].status = 401
    /\ responses[c][2].status < 400
    /\ responses[c][2].read = "text"
    /\ responses[c][2].text \in DOMAIN ExpectedJson

C2_RetryThenSuccess ==
    \A c \in Callers :
        RetryThenJson(c) =>
            /\ Returned(c)
            /\ result[c] = Success(ExpectedJson[responses[c][2].text])
            /\ refresh_calls[c] = 1
            /\ sent[c] = 2

C2_Witness ==
    \E c \in Callers :
        /\ RetryThenJson(c)
        /\ result[c].ok
        /\ responses[c][2].status = 200

(***************************************************************************)
(* C3: a 401 on the second attempt is returned like any other status      *)
(* >= 400: Failure with category NETWORK, code API_ERROR_401, message     *)
(* "API Error: 401", details.status = 401; refresh_token was called at    *)
(* least once.                                                             *)
(***************************************************************************)
Final401(c) ==
    /\ Ended(c)
    /\ attempt[c] = 1
    /\ Len(responses[c]) = 2
    /\ responses[c][2].status = 401
    /\ responses[c][2].read # "error"

C3_Final401IsApiError ==
    \A c \in Callers :
        Final401(c) =>
            /\ IsFailure(c)
            /\ Context(c).category = "NETWORK"
            /\ Context(c).code = "API_ERROR_401"
            /\ Context(c).message = "API Error: 401"
            /\ "status" \in DOMAIN Context(c).details
            /\ Context(c).details.status = 401
            /\ refresh_calls[c] >= 1

C3_Witness ==
    \E c \in Callers :
        /\ Final401(c)
        /\ IsFailure(c)
        /\ refresh_outcome[c] = "failure"
        /\ responses[c][2].text = "{not json"

TokenFailed(c) ==
    /\ Len(token_outcomes[c]) >= 1
    /\ LastToken(c).kind = "failure"

C5_TokenFailureReturnedUnchanged ==
    \A c \in Callers :
        TokenFailed(c) =>
            /\ Returned(c)
            /\ sent[c] = Len(token_outcomes[c]) - 1
            /\ sent[c] = attempt[c]
            /\ IsFailure(c)
            /\ result[c].error = LastToken(c).error
            /\ Context(c).message = LastToken(c).error.context.message
            /\ Context(c).severity = LastToken(c).error.context.severity
            /\ Context(c).category = LastToken(c).error.context.category
            /\ Context(c).details = LastToken(c).error.context.details

C5_Witness ==
    \E c, d \in Callers :
        /\ TokenFailed(c) /\ attempt[c] = 0 /\ sent[c] = 0
        /\ TokenFailed(d) /\ attempt[d] = 1 /\ sent[d] = 1 /\ refresh_calls[d] = 1
        /\ Context(d).message = "Auth token fetch failed"

(***************************************************************************)
(* C6: when the first response has a status other than 401, exactly one   *)
(* request is sent and refresh_token is never called.                     *)
(***************************************************************************)
C6_OnlyA401IsRetried ==
    \A c \in Callers :
        (Len(responses[c]) >= 1 /\ responses[c][1].status # 401) =>
            /\ Ended(c)
            /\ sent[c] = 1
            /\ refresh_calls[c] = 0
            /\ Len(responses[c]) = 1

C6_Witness ==
    \E c, d \in Callers :
        /\ Returned(c) /\ Len(responses[c]) = 1 /\ responses[c][1].status = 500
        /\ Returned(d) /\ Len(responses[d]) = 1 /\ responses[d][1].status = 200
        /\ sent[c] = 1 /\ sent[d] = 1

(***************************************************************************)
(* C7: a _request call sends at most 2 requests, and once started it      *)
(* reaches a return with a Result: no third request, no endless loop.     *)
(***************************************************************************)
IsResult(r) ==
    \/ r.ok /\ DOMAIN r = {"ok", "value"}
    \/ ~r.ok /\ DOMAIN r = {"ok", "error"}

C7_AtMostTwoSendsAndReturns ==
    /\ [](\A c \in Callers :
            /\ sent[c] <= 2
            /\ Len(requests[c]) = sent[c]
            /\ Returned(c) => IsResult(result[c]))
    /\ \A c \in Callers : (pc[c] # "idle") ~> Returned(c)

C7_Witness ==
    \E c \in Callers : Returned(c) /\ sent[c] = 2 /\ attempt[c] = 1

(***************************************************************************)
(* C8: no exception leaves _request, whatever the token provider, the     *)
(* refresh, the transport, the body read and the parse do and however     *)
(* close() is interleaved: the caller gets a Result, and a failure holds  *)
(* a BRIDealException with an ErrorContext.                               *)
(***************************************************************************)
IsErrorContext(x) ==
    DOMAIN x = {"code", "message", "severity", "category", "details"}

C8_NoExceptionEscapes ==
    \A c \in Callers :
        /\ pc[c] # "raised"
        /\ Returned(c) =>
             /\ IsResult(result[c])
             /\ ~result[c].ok =>
                  /\ result[c].error.cls = "BRIDealException"
                  /\ "context" \in DOMAIN result[c].error
                  /\ IsErrorContext(result[c].error.context)

\* close() completed while the call waited for its token: the send finds no
\* session, and the AttributeError comes back as a Failure.
C8_Witness ==
    \E c \in Callers :
        /\ Returned(c)
        /\ session = 0
        /\ IsFailure(c)
        /\ Context(c).code = "UNEXPECTED_CLIENT_ERROR"
        /\ Context(c).details.error_type = "AttributeError"

(***************************************************************************)
(* C9, as stated: every transport failure of the send, a timeout of the   *)
(* total-timeout budget included, yields a Failure with category NETWORK  *)
(* and a code ending in _CLIENT_ERROR, with the exception's type name and *)
(* message in details; a timeout is never SYSTEM/UNEXPECTED_CLIENT_ERROR. *)
(***************************************************************************)
C9_TransportFailureIsNetwork ==
    \A c \in Callers :
        (Ended(c) /\ send_error[c] # NoException) =>
            /\ IsFailure(c)
            /\ Context(c).category = "NETWORK"
            /\ EndsWith(Context(c).code, "_CLIENT_ERROR")
            /\ Context(c).code # "UNEXPECTED_CLIENT_ERROR"
            /\ {"error_type", "original_error"} \subseteq DOMAIN Context(c).details
            /\ Context(c).details.error_type = send_error[c].cls
            /\ Context(c).details.original_error = send_error[c].msg

(***************************************************************************)
(* C10: a response with status >= 400 that is not retried yields a        *)
(* Failure with category NETWORK, code API_ERROR_<status>, message        *)
(* "API Error: <status>", and details with the url, the method, the       *)
(* status and the response text (its first 500 characters).               *)
(***************************************************************************)
ErrorResponse(c) ==
    /\ Ended(c)
    /\ Len(responses[c]) >= 1
    /\ LastResponse(c).read = "text"
    /\ LastResponse(c).status >= 400

C10_ErrorStatusIsApiError ==
    \A c \in Callers :
        ErrorResponse(c) =>
            /\ IsFailure(c)
            /\ Context(c).category = "NETWORK"
            /\ Context(c).code = "API_ERROR_" \o ToString(LastResponse(c).status)
            /\ Context(c).message = "API Error: " \o ToString(LastResponse(c).status)
            /\ {"url", "method", "status", "response"} \subseteq DOMAIN Context(c).details
            /\ Context(c).details.url = LastRequest(c).url
            /\ Context(c).details.method = LastRequest(c).method
            /\ Context(c).details.status = LastResponse(c).status
            /\ Len(Context(c).details.response) = Min(Len(LastResponse(c).text), 500)
            /\ Context(c).details.response =
                   SubSeq(LastResponse(c).text, 1, Len(Context(c).details.response))

C10_Witness ==
    \E c \in Callers :
        /\ ErrorResponse(c)
        /\ attempt[c] = 0
        /\ LastResponse(c).status = 400
        /\ LastResponse(c).text = LongBody
        /\ Context(c).code = "API_ERROR_400"

(***************************************************************************)
(* C11: a response with status < 400 and an empty body makes _request     *)
(* return Success(None); it is never reported as a parse failure.         *)
(***************************************************************************)
EmptyBodyResponse(c) ==
    /\ Ended(c)
    /\ Len(responses[c]) >= 1
    /\ LastResponse(c).read = "text"
    /\ LastResponse(c).status < 400
    /\ LastResponse(c).text = ""

C11_EmptyBodyIsSuccessNone ==
    \A c \in Callers :
        EmptyBodyResponse(c) =>
            /\ Returned(c)
            /\ result[c].ok
            /\ result[c] = Success(PyNone)

C11_Witness ==
    \E c, d \in Callers :
        /\ EmptyBodyResponse(c) /\ attempt[c] = 0 /\ result[c].ok
        /\ EmptyBodyResponse(d) /\ attempt[d] = 1 /\ result[d].ok

(***************************************************************************)
(* C12: a response with status < 400 and a non-empty body that is not     *)
(* valid JSON yields a Failure with category NETWORK and code             *)
(* JSON_DECODE_ERROR whose details.response is the raw body, cut to its   *)
(* first 500 characters; a valid JSON body yields Success of the parsed   *)
(* value.                                                                  *)
(***************************************************************************)
BodyResponse(c) ==
    /\ Ended(c)
    /\ Len(responses[c]) >= 1
    /\ LastResponse(c).read = "text"
    /\ LastResponse(c).status < 400
    /\ LastResponse(c).text # ""

\* The first n characters of a text.
Prefix(text, n) == SubSeq(text, 1, Min(Len(text), n))

C12_JsonBodyParsedOrDecodeError ==
    \A c \in Callers :
        BodyResponse(c) =>
            IF LastResponse(c).text \in DOMAIN ExpectedJson
            THEN /\ Returned(c)
                 /\ result[c] = Success(ExpectedJson[LastResponse(c).text])
            ELSE /\ IsFailure(c)
                 /\ Context(c).category = "NETWORK"
                 /\ Context(c).code = "JSON_DECODE_ERROR"
                 /\ "response" \in DOMAIN Context(c).details
                 /\ Context(c).details.response = Prefix(LastResponse(c).text, 500)

C12_Witness ==
    \E c, d \in Callers :
        /\ BodyResponse(c) /\ LastResponse(c).text = "{not json"
        /\ IsFailure(c) /\ Context(c).code = "JSON_DECODE_ERROR"
        /\ BodyResponse(d) /\ LastResponse(d).text = "[1,2]" /\ result[d].ok

(***************************************************************************)
(* C13: in every Failure built from an HTTP response (API_ERROR_<status>  *)
(* or JSON_DECODE_ERROR) details.response is a prefix of the response     *)
(* body of length min(len(body), 500): it never exceeds 500 characters.   *)
(***************************************************************************)
IsApiErrorCode(code) == Len(code) > 10 /\ SubSeq(code, 1, 10) = "API_ERROR_"

ResponseFailure(c) ==
    /\ IsFailure(c)
    /\ IsApiErrorCode(Context(c).code) \/ Context(c).code = "JSON_DECODE_ERROR"

C13_ResponseDetailIsBoundedPrefix ==
    \A c \in Callers :
        ResponseFailure(c) =>
            /\ Len(responses[c]) >= 1
            /\ LastResponse(c).read = "text"
            /\ "response" \in DOMAIN Context(c).details
            /\ Len(Context(c).details.response) <= 500
            /\ Len(Context(c).details.response) = Min(Len(LastResponse(c).text), 500)
            /\ \A i \in 1..Len(Context(c).details.response) :
                   CharAt(Context(c).details.response, i) = CharAt(LastResponse(c).text, i)

C13_Witness ==
    \E c, d \in Callers :
        /\ ResponseFailure(c) /\ Context(c).code = "JSON_DECODE_ERROR"
        /\ LastResponse(c).text = LongBody /\ Len(LastResponse(c).text) > 500
        /\ Len(Context(c).details.response) = 500
        /\ ResponseFailure(d) /\ Context(d).code = "API_ERROR_500"
        /\ LastResponse(d).text = "{not json"
        /\ Context(d).details.response = "{not json"

(***************************************************************************)
(* C14: health_check on an operational client returns Success(True) when  *)
(* its probe read succeeds or fails with details.status = 404, and a      *)
(* Failure when the probe fails in any other way, HTTP 500 included.      *)
(***************************************************************************)
HealthProbeEnded(c) == args[c].api = "health_check" /\ Ended(c)

CarriesStatus(c, status) ==
    /\ IsFailure(c)
    /\ "status" \in DOMAIN Context(c).details
    /\ Context(c).details.status = status

ReceivedStatus(c, status) ==
    /\ Len(responses[c]) >= 1
    /\ LastResponse(c).read = "text"
    /\ LastResponse(c).status = status

C14_HealthCheckVerdict ==
    \A c \in Callers :
        (is_operational /\ HealthProbeEnded(c)) =>
            /\ Returned(c)
            /\ IsResult(health[c])
            /\ result[c].ok => health[c] = Success(PyTrue)
            /\ CarriesStatus(c, 404) => health[c] = Success(PyTrue)
            /\ ReceivedStatus(c, 404) => health[c] = Success(PyTrue)
            /\ (~result[c].ok /\ ~CarriesStatus(c, 404)) => ~health[c].ok
            /\ ReceivedStatus(c, 500) => ~health[c].ok

C14_Witness ==
    \E c \in Callers :
        /\ is_operational
        /\ HealthProbeEnded(c)
        /\ ReceivedStatus(c, 404)
        /\ CarriesStatus(c, 404)
        /\ health[c] = Success(PyTrue)

(***************************************************************************)
(* C15, as stated: when health_check fails because its probe failed with  *)
(* an HTTP status, the Failure has the message "JD Maintain Quote API     *)
(* health check failed." and the status is readable at                    *)
(* details["original_error"]["context"]["details"]["status"].             *)
(***************************************************************************)
HealthDetails(c) == health[c].error.context.details

C15_StatusUnderOriginalError ==
    \A c \in Callers :
        \A status \in Statuses :
            (HealthProbeEnded(c) /\ CarriesStatus(c, status) /\ ~health[c].ok) =>
                /\ health[c].error.context.message =
                       "JD Maintain Quote API health check failed."
                /\ "original_error" \in DOMAIN HealthDetails(c)
                /\ "context" \in DOMAIN HealthDetails(c).original_error
                /\ "details" \in DOMAIN HealthDetails(c).original_error.context
                /\ "status" \in DOMAIN HealthDetails(c).original_error.context.details
                /\ HealthDetails(c).original_error.context.details.status = status

(***************************************************************************)
(* C16, as stated: under any interleaving of concurrent _request,         *)
(* _ensure_session and close calls on one client, at most one open        *)
(* session exists at a time, and no session that was opened is dropped    *)
(* without being closed: every open session is the one self.session       *)
(* holds.                                                                  *)
(***************************************************************************)
OpenSessions == {i \in 1..Len(sessions) : sessions[i] = "open"}

C16_OneOpenSessionNoneLeaked ==
    /\ Cardinality(OpenSessions) <= 1
    /\ \A i \in OpenSessions : session = i

(***************************************************************************)
(* C17: a _request call that comes after close() has completed opens a    *)
(* new session before it sends and goes on as usual.  Whenever a call     *)
(* leaves _ensure_session the client holds an open session, a new one if  *)
(* close() left none; while no other close() is called that session stays *)
(* the client's open session, the sends of the call go on it, and the     *)
(* call never fails for want of a session.                                *)
(***************************************************************************)
SessionOpen == session # 0 /\ sessions[session] = "open"

EnsureStep(c) == pc[c] = "ensure" /\ pc'[c] # "ensure"

InFlight(c) == pc[c] \in {"token", "send", "refresh"}

\* A Failure that comes from the state of the session.
SessionFailure(c) ==
    /\ IsFailure(c)
    /\ \/ Context(c).code = "SESSION_NOT_INITIALIZED"
       \/ /\ Context(c).code = "UNEXPECTED_CLIENT_ERROR"
          /\ \/ Context(c).details.error_type = "AttributeError"
             \/ Context(c).message = "An unexpected error occurred: Session is closed"

C17_CallAfterCloseProceeds ==
    [][\A c \in Callers :
          /\ EnsureStep(c) =>
                /\ SessionOpen'
                /\ (closes >= 1 /\ ~SessionOpen) =>
                       /\ Len(sessions') = Len(sessions) + 1
                       /\ session' = Len(sessions')
                /\ ~SessionFailure(c)'
                /\ is_operational => pc'[c] = "token"
          /\ (InFlight(c) /\ SessionOpen /\ closes' = closes) =>
                /\ SessionOpen'
                /\ session' = session
                /\ ~SessionFailure(c)'
                /\ sent'[c] > sent[c] => requests'[c][sent'[c]].session = session
                /\ (pc[c] = "token" /\ pc'[c] # "token"
                        /\ token_outcomes'[c][Len(token_outcomes'[c])].kind = "success")
                       => sent'[c] = sent[c] + 1
      ]_vars

\* The first session was closed by close(); the call opened the second one
\* and got its answer on it.
C17_Witness ==
    \E c \in Callers :
        /\ Returned(c)
        /\ result[c].ok
        /\ closes >= 1
        /\ close_pc = "idle"
        /\ Len(sessions) = 2
        /\ sessions[1] = "closed"
        /\ session = 2
        /\ sessions[2] = "open"
        /\ requests[c][1].session = 2

(***************************************************************************)
(* C18: get_access_token is called once before every send.  On the retry  *)
(* path the order is send 1 (answered 401), refresh_token,                *)
(* get_access_token, send 2, and the second send carries the headers of   *)
(* the token fetched after the refresh, never those of attempt 1.         *)
(***************************************************************************)
RetryOrder == <<"get_access_token", "send", "refresh_token", "get_access_token", "send">>

IsPrefixOf(s, t) == Len(s) <= Len(t) /\ \A i \in 1..Len(s) : s[i] = t[i]

Count(s, e) == Cardinality({i \in 1..Len(s) : s[i] = e})

C18_TokenFetchedBeforeEverySend ==
    \A c \in Callers :
        /\ IsPrefixOf(events[c], RetryOrder)
        /\ Count(events[c], "send") = sent[c]
        /\ Count(events[c], "get_access_token") = token_calls[c]
        /\ Count(events[c], "refresh_token") = refresh_calls[c]
        /\ refresh_calls[c] >= 1 => responses[c][1].status = 401
        /\ \A k \in 1..Len(requests[c]) :
               /\ token_outcomes[c][k].kind = "success"
               /\ requests[c][k].kwargs.headers.Authorization =
                      "Bearer " \o token_outcomes[c][k].token
        /\ Len(requests[c]) = 2 =>
               /\ token_outcomes[c][2].token # token_outcomes[c][1].token
               /\ requests[c][2].kwargs.headers # requests[c][1].kwargs.headers

C18_Witness ==
    \E c \in Callers :
        /\ Returned(c)
        /\ events[c] = RetryOrder
        /\ responses[c][1].status = 401
        /\ requests[c][1].kwargs.headers.Authorization = "Bearer token1"
        /\ requests[c][2].kwargs.headers.Authorization = "Bearer token2"

(***************************************************************************)
(* C19, as stated: every Failure that _request returns, on every          *)
(* non-success path, has details that include the URL and the HTTP method *)
(* of the attempted request.                                               *)
(***************************************************************************)
AttemptedUrl(c) == "https://jdquote2-api.deere.com" \o args[c].endpoint

HasUrlAndMethod(c) ==
    /\ {"url", "method"} \subseteq DOMAIN Context(c).details
    /\ Context(c).details.url = AttemptedUrl(c)
    /\ Context(c).details.method = args[c].method

C19_EveryFailureHasUrlAndMethod ==
    \A c \in Callers : IsFailure(c) => HasUrlAndMethod(c)

(***************************************************************************)
(* C19, amended: every Failure that _request builds from a response or    *)
(* from an exception that is not a BRIDealException (API error, decode    *)
(* error, transport error, unexpected error) has details with the URL and *)
(* the method of the request.  The Failure of a provider that is not      *)
(* operational has empty details, and a BRIDealException that the         *)
(* credential provider returns or raises is passed on unchanged, with the *)
(* provider's details.                                                     *)
(***************************************************************************)
FromProvider(c) == result[c].error \in ProviderErrors \cup CollaboratorRaises

C19_BuiltFailuresHaveUrlAndMethod ==
    \A c \in Callers :
        IsFailure(c) =>
            IF Context(c).code = "AUTH_MANAGER_NOT_OPERATIONAL"
            THEN ~is_operational /\ DOMAIN Context(c).details = {}
            ELSE IF FromProvider(c)
            THEN /\ sent[c] < token_calls[c] \/ refresh_outcome[c] = "raised"
                 /\ "url" \notin DOMAIN Context(c).details
            ELSE /\ HasUrlAndMethod(c)
                 /\ Context(c).code \in {"API_ERROR_400", "API_ERROR_401", "API_ERROR_404",
                                         "API_ERROR_500", "JSON_DECODE_ERROR",
                                         "AIOHTTP_CLIENT_ERROR", "UNEXPECTED_CLIENT_ERROR"}

C19_Witness ==
    \E c, d \in Callers :
        /\ IsFailure(c) /\ Context(c).code = "AIOHTTP_CLIENT_ERROR" /\ HasUrlAndMethod(c)
        /\ send_error[c] # NoException
        /\ IsFailure(d) /\ Context(d).code = "AUTH_TEST_FAILURE"
        /\ Context(d).details = [reason |-> "mocked_auth_failure"]

(***************************************************************************)
(* C20: _request passes the query parameters to the transport only when   *)
(* params is set and not empty, and otherwise passes no params argument;  *)
(* it passes a JSON body only for POST, PUT and PATCH.  A GET or DELETE   *)
(* is sent with the headers, and the params if any, only.                 *)
(***************************************************************************)
EmptyMapping == [t |-> "dict", v |-> <<>>]

C20_ParamsAndJsonOnlyWhenDue ==
    \A c \in Callers :
        \A k \in 1..Len(requests[c]) :
            LET kw == requests[c][k].kwargs
                a == args[c]
            IN  /\ requests[c][k].method = a.method
                /\ "headers" \in DOMAIN kw
                /\ DOMAIN kw \subseteq {"headers", "params", "json"}
                /\ "params" \in DOMAIN kw <=> a.params \notin {PyNone, EmptyMapping}
                /\ "params" \in DOMAIN kw => kw.params = a.params
                /\ "json" \in DOMAIN kw <=> a.method \in {"POST", "PUT", "PATCH"}
                /\ "json" \in DOMAIN kw => kw.json = a.data
                /\ a.method \in {"GET", "DELETE"} =>
                       DOMAIN kw \in {{"headers"}, {"headers", "params"}}

\* A DELETE with an empty params mapping went out with headers only, in both
\* attempts.
C20_Witness ==
    \E c \in Callers :
        /\ args[c].api = "delete_equipment_from_quote"
        /\ args[c].params = EmptyMapping
        /\ Len(requests[c]) = 2
        /\ DOMAIN requests[c][1].kwargs = {"headers"}
        /\ DOMAIN requests[c][2].kwargs = {"headers"}

(***************************************************************************)
(* The background workers: Worker.run and AsyncWorker.run of               *)
(* src/temp_threading.py, Worker.run of home_page_dashboard_view.py.       *)
(* A worker is started, its run() begins on a pool thread (or its own      *)
(* thread), the callable ends by returning or raising, and run() emits    *)
(* its signals.  cancel() runs on the GUI thread at any moment.           *)
(***************************************************************************)
WorkerClasses == {"Worker", "AsyncWorker", "DashboardWorker"}

\* The classes that have a cancel() method.
Cancellable == {"Worker", "AsyncWorker"}

FnReturns == {PyNone, Dict(<<>>)}

FnRaises == {PyException("ValueError", "bad input")}

Returns(v) == [kind |-> "returned", value |-> v]

Raises(e) == [kind |-> "raised", exception |-> e]

\* What run_until_complete can end with once cancel() has cancelled the tasks
\* of the running loop and asked the loop to stop.
StoppedLoopOutcomes ==
    {Raises(PyException("CancelledError", "")),
     Raises(PyException("RuntimeError", "Event loop stopped before Future completed."))}

\* The dashboard's result signal is pyqtSignal(dict), and each callable the
\* dashboard dispatches returns a dict (lines 490, 651, 776).
FnReturnsOf(cls) == IF cls = "DashboardWorker" THEN {Dict(<<>>)} ELSE FnReturns

FnOutcomes(w) ==
    {Returns(v) : v \in FnReturnsOf(worker_class[w])} \cup {Raises(e) : e \in FnRaises}
        \cup (IF loop_stopped[w] THEN StoppedLoopOutcomes ELSE {})

Signal(name, payload) == [signal |-> name, payload |-> payload]

\* The name each class gives to its three signals.
ResultSignal(cls) == IF cls = "AsyncWorker" THEN "result_ready" ELSE "result"

ErrorSignal(cls) == IF cls = "AsyncWorker" THEN "error_occurred" ELSE "error"

\* What the error signal carries: the exception, or for the dashboard worker
\* the tuple (city_key, type(e), e, traceback.format_exc()).
ErrorPayload(cls, e) ==
    IF cls = "DashboardWorker"
    THEN [city_key |-> "key", type |-> e.cls, exception |-> e, traceback |-> "Traceback"]
    ELSE e

\* The body of run() without the finally clause: finished only on the way
\* out of the try.
RunSignals_NoFinally(cls, outcome, cancelled) ==
    IF outcome.kind = "returned"
    THEN <<Signal(ResultSignal(cls), outcome.value), Signal("finished", PyNone)>>
    ELSE <<Signal(ErrorSignal(cls), ErrorPayload(cls, outcome.exception))>>

\* The signals run() emits once the callable has ended: result unless the
\* worker was cancelled meanwhile, error for an Exception, then finished
\* (the finally clause; for AsyncWorker the thread's own finished signal).
RunSignals(cls, outcome, cancelled) ==
    (IF outcome.kind = "returned"
     THEN IF cancelled /\ cls \in Cancellable
          THEN <<>>
          ELSE <<Signal(ResultSignal(cls), outcome.value)>>
     ELSE IF IsException(outcome.exception)
          THEN <<Signal(ErrorSignal(cls), ErrorPayload(cls, outcome.exception))>>
          ELSE <<>>)
    \o <<Signal("finished", PyNone)>>

\* thread_pool.start(worker) / worker.start().
StartWorker(w, cls) ==
    /\ worker_pc[w] = "idle"
    /\ worker_class' = [worker_class EXCEPT ![w] = cls]
    /\ worker_pc' = [worker_pc EXCEPT ![w] = "queued"]
    /\ UNCHANGED <<is_cancelled, loop_stopped, fn_outcome, emitted>>
    /\ UNCHANGED notWorkerVars

\* run() begins.  Worker.run returns at once when already cancelled, through
\* the finally clause; the other two call the callable.
BeginRun(w) ==
    /\ worker_pc[w] = "queued"
    /\ IF worker_class[w] = "Worker" /\ is_cancelled[w]
       THEN /\ worker_pc' = [worker_pc EXCEPT ![w] = "done"]
            /\ emitted' = [emitted EXCEPT ![w] = <<Signal("finished", PyNone)>>]
       ELSE /\ worker_pc' = [worker_pc EXCEPT ![w] = "running"]
            /\ UNCHANGED emitted
    /\ UNCHANGED <<worker_class, is_cancelled, loop_stopped, fn_outcome>>
    /\ UNCHANGED notWorkerVars

\* The callable ends and run() emits its signals.
EndRun(w) ==
    /\ worker_pc[w] = "running"
    /\ \E o \in FnOutcomes(w) :
         /\ fn_outcome' = [fn_outcome EXCEPT ![w] = o]
         /\ emitted' = [emitted EXCEPT ![w] =
                            RunSignals(worker_class[w], o, is_cancelled[w])]
    /\ worker_pc' = [worker_pc EXCEPT ![w] = "done"]
    /\ UNCHANGED <<worker_class, is_cancelled, loop_stopped>>
    /\ UNCHANGED notWorkerVars

\* cancel(): sets the flag; AsyncWorker.cancel also cancels the tasks of a
\* running loop and stops it.
CancelWorker(w) ==
    /\ worker_pc[w] # "idle"
    /\ worker_class[w] \in Cancellable
    /\ ~is_cancelled[w]
    /\ is_cancelled' = [is_cancelled EXCEPT ![w] = TRUE]
    /\ loop_stopped' = [loop_stopped EXCEPT ![w] =
                            worker_class[w] = "AsyncWorker" /\ worker_pc[w] = "running"]
    /\ UNCHANGED <<worker_class, worker_pc, fn_outcome, emitted>>
    /\ UNCHANGED notWorkerVars

WorkerNext ==
    \/ \E w \in Workers, cls \in WorkerClasses : StartWorker(w, cls)
    \/ \E w \in Workers : BeginRun(w)
    \/ \E w \in Workers : EndRun(w)
    \/ \E w \in Workers : CancelWorker(w)

WorkerSpec == Init /\ [][WorkerNext]_vars

\* The signals of one channel among those a worker emitted.
Channel(w, names) == SelectSeq(emitted[w], LAMBDA s : s.signal \in names)

ResultChannel(w) == Channel(w, {"result", "result_ready"})

ErrorChannel(w) == Channel(w, {"error", "error_occurred"})

FinishedChannel(w) == Channel(w, {"finished"})

\* The exception an error signal carries.
CarriedException(payload) ==
    IF "exception" \in DOMAIN payload THEN payload.exception ELSE payload

(***************************************************************************)
(* C21: for a worker that was dispatched and not cancelled, once run() is  *)
(* over exactly one of result and error has fired: result, with the       *)
(* return value, iff the callable returned, and error, with the           *)
(* exception, iff it raised; finished was emitted exactly once, as the    *)
(* last signal.  Before run() is over nothing was emitted.                *)
(***************************************************************************)
C21_OneCallbackThenFinished ==
    \A w \in Workers :
        ~is_cancelled[w] =>
            /\ worker_pc[w] # "done" => emitted[w] = <<>>
            /\ worker_pc[w] = "done" =>
                 /\ Len(emitted[w]) = 2
                 /\ Len(ResultChannel(w)) + Len(ErrorChannel(w)) = 1
                 /\ Len(FinishedChannel(w)) = 1
                 /\ emitted[w][2].signal = "finished"
                 /\ fn_outcome[w].kind = "returned" <=> Len(ResultChannel(w)) = 1
                 /\ fn_outcome[w].kind = "raised" <=> Len(ErrorChannel(w)) = 1
                 /\ fn_outcome[w].kind = "returned" =>
                        emitted[w][1].payload = fn_outcome[w].value
                 /\ fn_outcome[w].kind = "raised" =>
                        CarriedException(emitted[w][1].payload) = fn_outcome[w].exception

\* One worker of each kind of ending: a dashboard worker whose callable
\* raised, and a pool worker whose callable returned.
C21_Witness ==
    \E w1, w2 \in Workers :
        /\ worker_class[w1] = "DashboardWorker"
        /\ worker_pc[w1] = "done"
        /\ fn_outcome[w1].kind = "raised"
        /\ worker_class[w2] = "Worker"
        /\ ~is_cancelled[w2]
        /\ worker_pc[w2] = "done"
        /\ fn_outcome[w2].kind = "returned"
        /\ Len(emitted[w2]) = 2

(***************************************************************************)
(* HomePageDashboardView: _on_forex_data_received, _on_forex_data_error,  *)
(* _on_crypto_data_received, _on_crypto_data_error.                       *)
(***************************************************************************)
Num(n) == [t |-> "num", v |-> n]

\* The values a rate or price of the worker's dict takes: None (the fetch
\* failed or the key is missing), zero, or a positive number.
RateValues == {PyNone, Num(0), Num(1), Num(2)}

\* What a data handler receives: None or the worker's dict.
ForexData ==
    {PyNone} \cup {Dict([current_rate |-> c, historical_rate |-> h]) :
                      c \in RateValues, h \in RateValues}

CryptoData ==
    {PyNone} \cup {Dict([current_btc_price |-> c, historical_btc_price |-> h]) :
                      c \in RateValues, h \in RateValues}

update_data(x, y, pen_color) ==
    [method |-> "update_data", x |-> x, y |-> y, pen_color |-> pen_color]

clear_plot == [method |-> "clear_plot"]

\* The trend test without the comparison with zero.
HasTrend_ZeroAllowed(current, historical) == current # PyNone /\ historical # PyNone

\* current is not None, historical is not None and historical != 0.
HasTrend(current, historical) ==
    /\ current # PyNone
    /\ historical # PyNone
    /\ historical # Num(0)

\* The chart calls of _on_forex_data_received, lines 653-708: a None data
\* returns before any chart call.
on_forex_data_received(data) ==
    IF data = PyNone
    THEN <<>>
    ELSE LET current_rate == data.v.current_rate
             historical_rate == data.v.historical_rate
         IN  IF HasTrend(current_rate, historical_rate)
             THEN <<update_data(<<0, 1>>, <<historical_rate, current_rate>>, "g")>>
             ELSE <<clear_plot>>

\* The chart calls of _on_crypto_data_received, lines 778-833: a None data
\* clears the plot.
on_crypto_data_received(data) ==
    IF data = PyNone
    THEN <<clear_plot>>
    ELSE LET current_btc_price == data.v.current_btc_price
             historical_btc_price == data.v.historical_btc_price
         IN  IF HasTrend(current_btc_price, historical_btc_price)
             THEN <<update_data(<<0, 1>>, <<historical_btc_price, current_btc_price>>,
                                "orange")>>
             ELSE <<clear_plot>>

\* _on_forex_data_error and _on_crypto_data_error, lines 710-718, 835-841.
on_data_error == <<clear_plot>>

OnForexDataReceived(data) ==
    /\ handler_input' = [handler_input EXCEPT !["usdcad_chart_widget"] =
                             [kind |-> "data", data |-> data]]
    /\ chart_calls' = [chart_calls EXCEPT !["usdcad_chart_widget"] =
                           on_forex_data_received(data)]
    /\ UNCHANGED notChartVars

OnCryptoDataReceived(data) ==
    /\ handler_input' = [handler_input EXCEPT !["btc_chart_widget"] =
                             [kind |-> "data", data |-> data]]
    /\ chart_calls' = [chart_calls EXCEPT !["btc_chart_widget"] =
                           on_crypto_data_received(data)]
    /\ UNCHANGED notChartVars

OnDataError(ch) ==
    /\ handler_input' = [handler_input EXCEPT ![ch] = [kind |-> "error"]]
    /\ chart_calls' = [chart_calls EXCEPT ![ch] = on_data_error]
    /\ UNCHANGED notChartVars

ChartNext ==
    \/ \E data \in ForexData : OnForexDataReceived(data)
    \/ \E data \in CryptoData : OnCryptoDataReceived(data)
    \/ \E ch \in Charts : OnDataError(ch)

ChartSpec == Init /\ [][ChartNext]_vars

\* The current and the historical value of a data dict, whichever handler
\* it was given to.
CurrentOf(ch, data) ==
    IF ch = "btc_chart_widget" THEN data.v.current_btc_price ELSE data.v.current_rate

HistoricalOf(ch, data) ==
    IF ch = "btc_chart_widget" THEN data.v.historical_btc_price ELSE data.v.historical_rate

CallsOf(ch, method) == SelectSeq(chart_calls[ch], LAMBDA call : call.method = method)

(***************************************************************************)
(* C22: given a data dict, each of the two data handlers calls the        *)
(* chart's update_data once, with x = [0, 1] and y = [historical,         *)
(* current], exactly when current is not None and historical is neither   *)
(* None nor 0; in every other case, and in the error handler, it calls    *)
(* clear_plot and not update_data.                                        *)
(***************************************************************************)
C22_ChartUpdatedOrCleared ==
    \A ch \in Charts :
        /\ (handler_input[ch].kind = "data" /\ handler_input[ch].data # PyNone) =>
             LET current == CurrentOf(ch, handler_input[ch].data)
                 historical == HistoricalOf(ch, handler_input[ch].data)
             IN  IF current # PyNone /\ historical \notin {PyNone, Num(0)}
                 THEN /\ Len(CallsOf(ch, "update_data")) = 1
                      /\ Len(CallsOf(ch, "clear_plot")) = 0
                      /\ CallsOf(ch, "update_data")[1].x = <<0, 1>>
                      /\ CallsOf(ch, "update_data")[1].y = <<historical, current>>
                 ELSE /\ Len(CallsOf(ch, "update_data")) = 0
                      /\ Len(CallsOf(ch, "clear_plot")) >= 1
        /\ handler_input[ch].kind = "error" =>
             /\ Len(CallsOf(ch, "update_data")) = 0
             /\ Len(CallsOf(ch, "clear_plot")) >= 1

\* The forex handler was given a current rate and a historical rate of 0 and
\* cleared the plot, while the crypto handler drew a trend.
C22_Witness ==
    /\ handler_input["usdcad_chart_widget"].kind = "data"
    /\ handler_input["usdcad_chart_widget"].data # PyNone
    /\ handler_input["usdcad_chart_widget"].data.v.current_rate = Num(2)
    /\ handler_input["usdcad_chart_widget"].data.v.historical_rate = Num(0)
    /\ chart_calls["usdcad_chart_widget"] = <<clear_plot>>
    /\ handler_input["btc_chart_widget"].kind = "data"
    /\ Len(CallsOf("btc_chart_widget", "update_data")) = 1

(***************************************************************************)
(* JDQuoteApiClient._request, lines 60-96, and health_check, lines        *)
(* 170-175.  The first send sits in the outer try; the refresh, the       *)
(* second _get_headers, the second send and the parse of its body sit in  *)
(* the inner try of lines 72-83.                                          *)
(***************************************************************************)
QuoteCalls ==
    {[api |-> "get_quote_details", method |-> "GET",
      endpoint |-> "quotes/Q1/maintain-quote-details"],
     [api |-> "delete_quote", method |-> "DELETE", endpoint |-> "quotes/Q1"],
     [api |-> "health_check", method |-> "GET", endpoint |-> "health"]}

QuoteStatuses == {200, 400, 401, 404, 500}

QuoteBodies == {"", "[1,2]", "{not json"}

QuoteResponses == {[status |-> s, text |-> b] : s \in QuoteStatuses, b \in QuoteBodies}

\* What get_access_token gives _get_headers: a token, a falsy token, or an
\* exception.
HeaderOutcomes ==
    {[kind |-> "token"], [kind |-> "missing"]}
        \cup {[kind |-> "raised", exception |-> e] :
                 e \in {PyException("RuntimeError", "provider failed")}}

\* ErrorContext(code=..., message=..., severity=..., details=...): the client
\* names no category.
QuoteFailure(code, message, severity, details) ==
    Failure(BRIDealException([code |-> code, message |-> message,
                              severity |-> severity, details |-> details]))

\* str(e) of a json.JSONDecodeError.
DecodeErrorText == "Expecting value: line 1 column 1 (char 0)"

\* _get_headers, lines 50-58: every failure leaves as JD_AUTH_HEADER_ERROR.
HeadersError(outcome) ==
    BRIDealException(
        [code |-> "JD_AUTH_HEADER_ERROR",
         message |-> "Failed to prepare authentication headers: " \o
                     (IF outcome.kind = "missing"
                      THEN "No valid authentication token available"
                      ELSE ExceptionText(outcome.exception)),
         severity |-> "HIGH"])

\* The except clauses of the outer try, lines 91-96.
OuterExcept(e, call) ==
    IF IsClientError(e)
    THEN QuoteFailure("JD_HTTP_ERROR", "HTTP request failed: " \o ExceptionText(e),
                      "MEDIUM", [endpoint |-> call.endpoint, method |-> call.method])
    ELSE QuoteFailure("JD_UNEXPECTED_ERROR",
                      "Unexpected error during API request: " \o ExceptionText(e),
                      "HIGH", [endpoint |-> call.endpoint, method |-> call.method])

\* The except clause of the inner try, lines 81-83.
InnerExcept(e) ==
    QuoteFailure("JD_AUTH_REFRESH_FAILED", "Authentication token refresh failed", "HIGH",
                 [error |-> ExceptionText(e)])

\* json.loads(text) if text else {}.
LoadsOrEmpty(text) == IF text = "" THEN [ok |-> TRUE, v |-> Dict(<<>>)] ELSE JsonLoads(text)

\* Lines 84-90: what the first attempt returns for a response it does not
\* retry.
FirstAttemptResult(response) ==
    IF response.status >= 400
    THEN QuoteFailure("JD_API_ERROR", "API request failed: " \o ToString(response.status),
                      "MEDIUM", [response |-> response.text, status |-> response.status])
    ELSE LET parsed == LoadsOrEmpty(response.text)
         IN  IF parsed.ok
             THEN Success(parsed.v)
             ELSE QuoteFailure("JD_RESPONSE_PARSE_ERROR",
                               "Failed to parse API response as JSON", "MEDIUM",
                               [response |-> response.text, error |-> DecodeErrorText])

\* Lines 76-83: what the second attempt returns; the decode error of line 80
\* is raised inside the inner try.
SecondAttemptResult(response) ==
    IF response.status >= 400
    THEN QuoteFailure("JD_API_ERROR",
                      "API request failed after token refresh: " \o ToString(response.status),
                      "MEDIUM", [response |-> response.text, status |-> response.status])
    ELSE LET parsed == LoadsOrEmpty(response.text)
         IN  IF parsed.ok
             THEN Success(parsed.v)
             ELSE InnerExcept(PyException("JSONDecodeError", DecodeErrorText))

Bool(b) == [t |-> "bool", v |-> b]

\* health_check that hands the probe's failure on.
QuoteHealthCheck_Propagate(r) == IF r.ok THEN Success(Bool(TRUE)) ELSE r

\* health_check, line 173: Result.success(result.is_success()).
QuoteHealthCheck(r) == Success(Bool(r.ok))

\* A method of the client is called: _ensure_session, then _get_headers
\* awaits the token.
QuoteInvoke(call) ==
    /\ quote_pc = "idle"
    /\ quote_pc' = "headers"
    /\ quote_call' = call
    /\ quote_responses' = <<>>
    /\ quote_refreshed' = FALSE
    /\ quote_result' = NoResult
    /\ quote_health' = NoResult
    /\ UNCHANGED notQuoteVars

\* _request returns r; health_check wraps it.
QuoteFinish(r) ==
    /\ quote_pc' = "done"
    /\ quote_result' = r
    /\ quote_health' = IF quote_call.api = "health_check"
                       THEN QuoteHealthCheck(r)
                       ELSE quote_health

\* _get_headers ends: before the first send an exception reaches the outer
\* except clauses, before the second send the inner one.
QuoteHeaders(outcome) ==
    /\ quote_pc = "headers"
    /\ IF outcome.kind = "token"
       THEN /\ quote_pc' = "send"
            /\ UNCHANGED <<quote_result, quote_health>>
       ELSE IF quote_refreshed
       THEN QuoteFinish(InnerExcept(HeadersError(outcome)))
       ELSE QuoteFinish(OuterExcept(HeadersError(outcome), quote_call))
    /\ UNCHANGED <<quote_call, quote_responses, quote_refreshed>>
    /\ UNCHANGED notQuoteVars

\* The send fails, or the read of the body does.
QuoteSendFails(e) ==
    /\ quote_pc = "send"
    /\ IF quote_refreshed
       THEN QuoteFinish(InnerExcept(e))
       ELSE QuoteFinish(OuterExcept(e, quote_call))
    /\ UNCHANGED <<quote_call, quote_responses, quote_refreshed>>
    /\ UNCHANGED notQuoteVars

\* The response arrives and its text is read.
QuoteResponse(response) ==
    /\ quote_pc = "send"
    /\ quote_responses' = Append(quote_responses, response)
    /\ IF quote_refreshed
       THEN QuoteFinish(SecondAttemptResult(response))
       ELSE IF response.status = 401
       THEN /\ quote_pc' = "refresh"
            /\ UNCHANGED <<quote_result, quote_health>>
       ELSE QuoteFinish(FirstAttemptResult(response))
    /\ UNCHANGED <<quote_call, quote_refreshed>>
    /\ UNCHANGED notQuoteVars

\* refresh_access_token returns (its value is not used) or raises.
QuoteRefresh(raised) ==
    /\ quote_pc = "refresh"
    /\ IF raised
       THEN /\ QuoteFinish(InnerExcept(PyException("RuntimeError", "provider failed")))
            /\ UNCHANGED quote_refreshed
       ELSE /\ quote_pc' = "headers"
            /\ quote_refreshed' = TRUE
            /\ UNCHANGED <<quote_result, quote_health>>
    /\ UNCHANGED <<quote_call, quote_responses>>
    /\ UNCHANGED notQuoteVars

\* The caller takes the result.
QuoteReturn ==
    /\ quote_pc = "done"
    /\ quote_pc' = "idle"
    /\ quote_call' = NoQuoteCall
    /\ quote_responses' = <<>>
    /\ quote_refreshed' = FALSE
    /\ quote_result' = NoResult
    /\ quote_health' = NoResult
    /\ UNCHANGED notQuoteVars

QuoteNext ==
    \/ \E call \in QuoteCalls : QuoteInvoke(call)
    \/ \E outcome \in HeaderOutcomes : QuoteHeaders(outcome)
    \/ \E e \in TransportErrors : QuoteSendFails(e)
    \/ \E response \in QuoteResponses : QuoteResponse(response)
    \/ \E raised \in BOOLEAN : QuoteRefresh(raised)
    \/ QuoteReturn

QuoteSpec == Init /\ [][QuoteNext]_vars

\* The call ended with the classification of its second response.
SecondAttemptClassified ==
    /\ quote_pc = "done"
    /\ Len(quote_responses) = 2

\* The error code of a Result, "" for a Success.
CodeOf(r) == IF r.ok THEN "" ELSE r.error.context.code

(***************************************************************************)
(* C23, as stated: the second attempt after a 401 classifies its response *)
(* as the first attempt would, apart from not retrying: the same Result   *)
(* variant and the same error code for the same status and body; a        *)
(* malformed JSON success body yields JD_RESPONSE_PARSE_ERROR, not an     *)
(* authentication-refresh failure.                                        *)
(***************************************************************************)
C23_SecondAttemptClassifiesAsFirst ==
    SecondAttemptClassified =>
        LET asFirst == FirstAttemptResult(quote_responses[2])
        IN  /\ quote_result.ok = asFirst.ok
            /\ CodeOf(quote_result) = CodeOf(asFirst)
            /\ CodeOf(quote_result) # "JD_AUTH_REFRESH_FAILED"

(***************************************************************************)
(* C26: health_check never returns a Failure for an HTTP-level problem:   *)
(* whenever the probe _request returned, health_check returns Success(b)  *)
(* with b true exactly when the probe returned a Success; a probe         *)
(* answered 404 or 500 yields Success(False).                             *)
(***************************************************************************)
C26_HealthCheckWrapsProbe ==
    (quote_pc = "done" /\ quote_call.api = "health_check") =>
        /\ quote_health.ok
        /\ quote_health.value = Bool(quote_result.ok)
        /\ (Len(quote_responses) = 1 /\ quote_responses[1].status \in {404, 500}) =>
               quote_health = Success(Bool(FALSE))

\* The probe was answered 404 and health_check returned Success(False).
C26_Witness ==
    /\ quote_pc = "done"
    /\ quote_call.api = "health_check"
    /\ Len(quote_responses) = 1
    /\ quote_responses[1].status = 404
    /\ ~quote_result.ok
    /\ quote_health = Success(Bool(FALSE))

(***************************************************************************)
(* C24: the outcome of refresh_token is not consulted.  After a refresh   *)
(* that returned a Failure the engine has fetched the headers of attempt  *)
(* 2 and, the token and the session being there, sent attempt 2; the      *)
(* final Result is the one attempt 2 gives, never TOKEN_REFRESH_FAILURE.  *)
(* Only a refresh_token that raised ends the call with one send and no    *)
(* second header fetch.                                                   *)
(***************************************************************************)
RefreshFailed(c) == refresh_outcome[c] = "failure"

SecondResponseRead(c) ==
    /\ Ended(c)
    /\ Len(responses[c]) = 2
    /\ responses[c][2].read = "text"

C24_RefreshOutcomeNotConsulted ==
    \A c \in Callers :
        /\ RefreshFailed(c) =>
             /\ token_calls[c] = 2
             /\ attempt[c] = 1
             /\ (Ended(c) /\ LastToken(c).kind = "success") =>
                    sent[c] = 2 \/ SessionFailure(c)
             /\ IsFailure(c) => Context(c).code # "TOKEN_REFRESH_FAILURE"
             /\ SecondResponseRead(c) =>
                    /\ Returned(c)
                    /\ responses[c][2].status >= 400 =>
                           /\ IsFailure(c)
                           /\ Context(c).code = "API_ERROR_" \o ToString(responses[c][2].status)
                    /\ (responses[c][2].status < 400 /\ responses[c][2].text = "") =>
                           result[c] = Success(PyNone)
                    /\ (responses[c][2].status < 400
                          /\ responses[c][2].text \in DOMAIN ExpectedJson) =>
                           result[c] = Success(ExpectedJson[responses[c][2].text])
        /\ refresh_outcome[c] = "raised" =>
             /\ Returned(c)
             /\ IsFailure(c)
             /\ sent[c] = 1
             /\ token_calls[c] = 1
        /\ (refresh_calls[c] = 1 /\ pc[c] # "refresh" /\ token_calls[c] = 1) =>
               refresh_outcome[c] = "raised"

\* refresh_token returned a Failure, attempt 2 was sent and answered 200 with
\* a JSON body, and the call returned that body.
C24_Witness ==
    \E c \in Callers :
        /\ RefreshFailed(c)
        /\ Returned(c)
        /\ sent[c] = 2
        /\ Len(responses[c]) = 2
        /\ responses[c][2].status = 200
        /\ result[c] = Success(ExpectedJson["[1,2]"])

(***************************************************************************)
(* C25, as stated: when close() has run between the _ensure_session step  *)
(* of a call and one of its sends (the call waits in get_access_token or  *)
(* refresh_token and the client has no open session), the call, once it   *)
(* reaches that send, ends with a Failure of code UNEXPECTED_CLIENT_ERROR *)
(* and category SYSTEM.                                                   *)
(***************************************************************************)
ClosedUnderCall(c) == pc[c] \in {"token", "refresh"} /\ ~SessionOpen

\* The call got as far as a send: its last token fetch succeeded and its
\* refresh did not raise.
ReachedSend(c) ==
    /\ Len(token_outcomes[c]) >= 1
    /\ LastToken(c).kind = "success"
    /\ refresh_outcome[c] # "raised"

UnexpectedSystemFailure(c) ==
    /\ IsFailure(c)
    /\ Context(c).code = "UNEXPECTED_CLIENT_ERROR"
    /\ Context(c).category = "SYSTEM"

C25_CloseBeforeSendAlwaysFails ==
    \A c \in Callers :
        ClosedUnderCall(c) ~> (Ended(c) /\ (ReachedSend(c) => UnexpectedSystemFailure(c)))

(***************************************************************************)
(* C25, amended: a call in flight never opens a session; when it reaches  *)
(* a send while the client has no open session (close() ran after its     *)
(* _ensure_session step and no other call has opened a new session        *)
(* since), it sends nothing and returns a Failure of code                 *)
(* UNEXPECTED_CLIENT_ERROR and category SYSTEM, whether close() still     *)
(* holds the lock or not.                                                 *)
(***************************************************************************)
SendStep(c) ==
    /\ pc[c] = "token"
    /\ pc'[c] # "token"
    /\ LastToken(c)'.kind = "success"

C25_SendWithoutOpenSessionFails ==
    [][\A c \in Callers :
          /\ (InFlight(c) /\ pc'[c] # pc[c]) =>
                /\ session' = session
                /\ sessions' = sessions
                /\ lock' = lock
          /\ (SendStep(c) /\ ~SessionOpen) =>
                /\ sent'[c] = sent[c]
                /\ requests'[c] = requests[c]
                /\ Returned(c)'
                /\ UnexpectedSystemFailure(c)'
                /\ SessionFailure(c)'
      ]_vars

\* close() still holds the lock, its session closed, and the call that was
\* waiting for its second token came back with the failure of the send.
C25_Witness ==
    \E c \in Callers :
        /\ Returned(c)
        /\ UnexpectedSystemFailure(c)
        /\ Context(c).message = "An unexpected error occurred: Session is closed"
        /\ lock = "held"
        /\ sent[c] = 1
        /\ Len(token_outcomes[c]) = 2

(***************************************************************************)
(* MaintainQuotesAPI, maintain_quotes_api.py lines 19-175.  The client    *)
(* handed to the constructor is a JDQuoteApiClient, whose is_operational  *)
(* property reads the credential provider's flag at every access.         *)
(***************************************************************************)
\* The members of ErrorSeverity.
ErrorSeverity == {"LOW", "MEDIUM", "HIGH", "CRITICAL"}

\* The methods of JDQuoteApiClient, src/temp_jd_quote_client.py.
ClientMethods ==
    {"_request", "get_quote_details", "create_quote", "update_quote", "delete_quote",
     "list_quotes", "get_quote_status", "health_check", "close"}

\* __init__, lines 27-42: the value self.is_operational is left with.
ServiceOperational(config, client, client_operational) ==
    IF ~config THEN FALSE
    ELSE IF client THEN client_operational
    ELSE FALSE

\* The failure of lines 151-154 and 157-160; ErrorSeverity.ERROR is looked
\* up while the arguments of ErrorContext are evaluated.
ServiceFailure(code, message, severity, details) ==
    IF severity \in ErrorSeverity
    THEN Returns(Failure(BRIDealException(
             [code |-> code, message |-> message, severity |-> severity,
              details |-> details])))
    ELSE Raises(PyException("AttributeError", severity))

\* What a call on the client gives the service: a Result, or an exception.
ClientResults ==
    {Returns(Success(Dict(<<>>))),
     Returns(QuoteFailure("JD_API_ERROR", "API request failed: 500", "MEDIUM",
                          [response |-> "", status |-> 500])),
     Returns(QuoteFailure("JD_HTTP_ERROR", "HTTP request failed: Cannot connect to host",
                          "MEDIUM", [endpoint |-> "quotes", method |-> "GET"])),
     Raises(PyException("RuntimeError", "client failed"))}

\* create_quote_in_external_system and update_quote_in_external_system,
\* lines 54-73 and 117-136: the method looked up on the client is not one of
\* JDQuoteApiClient, and the AttributeError is caught.
SyncOperation(method) ==
    IF ~service.is_operational \/ ~service.jd_quote_api_client
    THEN [outcome |-> Returns(PyNone), calls |-> <<>>]
    ELSE IF method \notin ClientMethods
    THEN [outcome |-> Returns(PyNone), calls |-> <<>>]
    ELSE [outcome |-> Returns(PyNone), calls |-> <<method>>]

\* get_external_quote_status, lines 85-104.
get_external_quote_status(r) ==
    IF ~service.is_operational \/ ~service.jd_quote_api_client
    THEN [outcome |-> Returns(PyNone), calls |-> <<>>]
    ELSE [outcome |-> IF r.kind = "returned" /\ r.value.ok
                      THEN Returns(r.value.value)
                      ELSE Returns(PyNone),
          calls |-> <<"get_quote_details">>]

\* get_quotes_by_criteria, lines 150-175.
get_quotes_by_criteria(r) ==
    IF ~service.is_operational
    THEN [outcome |-> ServiceFailure(
                          "SERVICE_NOT_OPERATIONAL",
                          "MaintainQuotesAPI is not operational. Cannot fetch quotes.",
                          "ERROR", [reason |-> "Service not operational"]),
          calls |-> <<>>]
    ELSE IF ~service.jd_quote_api_client
    THEN [outcome |-> ServiceFailure(
                          "API_CLIENT_UNAVAILABLE",
                          "JDQuoteApiClient not available. Cannot fetch quotes.",
                          "ERROR", [reason |-> "API client not provided"]),
          calls |-> <<>>]
    ELSE [outcome |-> IF r.kind = "returned"
                      THEN r
                      ELSE ServiceFailure(
                               "UNEXPECTED_QUOTE_FETCH_ERROR",
                               "An unexpected error occurred while fetching quotes: "
                                   \o ExceptionText(r.exception),
                               "CRITICAL", [exception |-> ExceptionText(r.exception)]),
          calls |-> <<"_request">>]

\* MaintainQuotesAPI(config, jd_quote_api_client): the client's flag is read
\* once, here.
ServiceConstruct(config, client) ==
    /\ ~service.constructed
    /\ service' = [constructed |-> TRUE, config |-> config, jd_quote_api_client |-> client,
                   client_was_operational |-> is_operational,
                   is_operational |-> ServiceOperational(config, client, is_operational)]
    /\ UNCHANGED <<service_op, service_outcome, client_calls>>
    /\ UNCHANGED notServiceVars

\* The credential provider of the client becomes operational, or stops
\* being so, after the service was constructed.
ProviderChanges ==
    /\ service.constructed
    /\ is_operational' = ~is_operational
    /\ UNCHANGED <<sessionVars, calls, pc, args, attempt, sent, requests, responses,
                   send_error, token_calls, token_outcomes, refresh_calls, refresh_outcome,
                   result, health, events>>
    /\ UNCHANGED otherVars

\* The quote and dealer ids the operations are called with.
ServiceIds == {"Q1", "Q2"}

ServiceEnds(op, id, r) ==
    /\ service_op' = [name |-> op, id |-> id]
    /\ service_outcome' = r.outcome
    /\ client_calls' = r.calls
    /\ UNCHANGED service
    /\ UNCHANGED notServiceVars

CreateQuote(id) ==
    /\ service.constructed
    /\ ServiceEnds("create_quote_in_external_system", id,
                   SyncOperation("submit_new_quote"))

UpdateQuote(id) ==
    /\ service.constructed
    /\ ServiceEnds("update_quote_in_external_system", id,
                   SyncOperation("update_existing_quote"))

GetExternalQuoteStatus(id, r) ==
    /\ service.constructed
    /\ ServiceEnds("get_external_quote_status", id, get_external_quote_status(r))

GetQuotesByCriteria(id, r) ==
    /\ service.constructed
    /\ ServiceEnds("get_quotes_by_criteria", id, get_quotes_by_criteria(r))

ServiceNext ==
    \/ \E config \in BOOLEAN, client \in BOOLEAN : ServiceConstruct(config, client)
    \/ ProviderChanges
    \/ \E id \in ServiceIds : CreateQuote(id)
    \/ \E id \in ServiceIds : UpdateQuote(id)
    \/ \E id \in ServiceIds, r \in ClientResults : GetExternalQuoteStatus(id, r)
    \/ \E id \in ServiceIds, r \in ClientResults : GetQuotesByCriteria(id, r)

ServiceSpec == Init /\ [][ServiceNext]_vars

\* The operation returned None or Failure(SERVICE_NOT_OPERATIONAL).
NoneOrNotOperational ==
    /\ service_outcome.kind = "returned"
    /\ \/ service_outcome.value = PyNone
       \/ /\ "error" \in DOMAIN service_outcome.value
          /\ service_outcome.value.error.context.code = "SERVICE_NOT_OPERATIONAL"

(***************************************************************************)
(* C27, as stated: is_operational is fixed at construction (true iff a    *)
(* config and a client were given and the client was operational then)    *)
(* and never changed; while it is false every operation returns None or   *)
(* Failure(SERVICE_NOT_OPERATIONAL) and invokes no method of the client;  *)
(* get_quotes_by_criteria never raises.                                   *)
(***************************************************************************)
C27_NotOperationalTouchesNothing ==
    service.constructed =>
        /\ service.is_operational =
               (service.config /\ service.jd_quote_api_client
                   /\ service.client_was_operational)
        /\ (~service.is_operational /\ service_op # NoOperation) =>
               /\ client_calls = <<>>
               /\ NoneOrNotOperational
        /\ service_op.name = "get_quotes_by_criteria" => service_outcome.kind = "returned"

\* ---------------------------------------------------------------------------
\* GetQuotesView: the Get Quotes button and its fetch task
\* (app/views/modules/get_quotes_view.py, app/core/threading.py).
\* ---------------------------------------------------------------------------

\* Texts a user can leave in a line edit: nothing, blanks only, the pre-filled
\* dealer id, a date.
EditTexts == {"", "  ", "x950700", "01/01/2025"}

EditNames == {"dealer_racf_id_edit", "start_date_edit", "end_date_edit"}

\* str.strip() on the texts above: a text of blanks becomes the empty text.
strip(text) == IF text = "  " THEN "" ELSE text

\* What TaskManager.run_async_task hands back: the id of the task, a str.
run_async_task(counter) == [t |-> "str", counter |-> counter]

\* Attribute lookup of add_done_callback: a str has no such attribute, a
\* concurrent.futures.Future has.
add_done_callback(obj) ==
    IF obj.t = "Future" THEN "registered" ELSE "AttributeError"

\* The validation of _handle_get_quotes_button_pressed: the message box of the
\* first check that fails, "" when all pass.
InputError(jd_quote_service) ==
    IF strip(line_edits.dealer_racf_id_edit) = "" THEN "Dealer RACF ID is required."
    ELSE IF strip(line_edits.start_date_edit) = "" THEN "Start Modified Date is required."
    ELSE IF strip(line_edits.end_date_edit) = "" THEN "End Modified Date is required."
    ELSE IF ~jd_quote_service THEN "JDQuoteIntegrationService is not configured. Cannot fetch quotes."
    ELSE ""

\* GetQuotesView.__init__: the service may be missing.
ViewConstruct(jd_quote_service) ==
    /\ ~view.constructed
    /\ view' = [constructed |-> TRUE, jd_quote_service |-> jd_quote_service]
    /\ UNCHANGED <<line_edits, get_quotes_button, results_display, message_box,
                   fetch_task, done_callbacks, press_raised>>
    /\ UNCHANGED notViewVars

\* The user changes the text of one line edit.
EditText(name, text) ==
    /\ view.constructed
    /\ line_edits[name] # text
    /\ line_edits' = [line_edits EXCEPT ![name] = text]
    /\ UNCHANGED <<view, get_quotes_button, results_display, message_box,
                   fetch_task, done_callbacks, press_raised>>
    /\ UNCHANGED notViewVars

\* _handle_get_quotes_button_pressed, the slot of the button's clicked signal;
\* a disabled button emits no clicked signal.
PressGetQuotes ==
    /\ view.constructed
    /\ get_quotes_button.enabled
    /\ IF InputError(view.jd_quote_service) # ""
       THEN /\ message_box' = InputError(view.jd_quote_service)
            /\ results_display' =
                 IF message_box' = "JDQuoteIntegrationService is not configured. Cannot fetch quotes."
                 THEN "Error: JDQuoteIntegrationService not available."
                 ELSE results_display
            /\ press_raised' = "none"
            /\ UNCHANGED <<get_quotes_button, fetch_task, done_callbacks>>
       ELSE /\ get_quotes_button' = [enabled |-> FALSE]
            /\ results_display' = "Fetching quotes"
            /\ fetch_task' = [state |-> "running", counter |-> fetch_task.counter + 1]
            /\ LET future == run_async_task(fetch_task.counter + 1)
               IN  IF add_done_callback(future) = "registered"
                   THEN /\ done_callbacks' = done_callbacks \cup {"_handle_fetch_quotes_response"}
                        /\ press_raised' = "none"
                   ELSE /\ press_raised' = add_done_callback(future)
                        /\ UNCHANGED done_callbacks
            /\ UNCHANGED message_box
    /\ UNCHANGED <<view, line_edits>>
    /\ UNCHANGED notViewVars

\* What _fetch_quotes_async_task can end with: a SUCCESS response, an ERROR
\* response of the service, or an exception it turns into an ERROR response.
FetchOutcomes == {"SUCCESS", "ERROR", "exception"}

\* The AsyncWorker of the fetch task ends on its thread: result_ready has no
\* slot (run_async_task was given no on_result), finished reaches
\* _task_completed.  A registered done callback would run here.
FetchTaskEnds(outcome) ==
    /\ fetch_task.state = "running"
    /\ fetch_task' = [fetch_task EXCEPT !.state = "ended"]
    /\ IF "_handle_fetch_quotes_response" \in done_callbacks
       THEN /\ get_quotes_button' = [enabled |-> TRUE]
            /\ results_display' = outcome
            /\ message_box' = outcome
       ELSE UNCHANGED <<get_quotes_button, results_display, message_box>>
    /\ UNCHANGED <<view, line_edits, done_callbacks, press_raised>>
    /\ UNCHANGED notViewVars

ViewNext ==
    \/ \E jd_quote_service \in BOOLEAN : ViewConstruct(jd_quote_service)
    \/ \E name \in EditNames, text \in EditTexts : EditText(name, text)
    \/ PressGetQuotes
    \/ \E outcome \in FetchOutcomes : FetchTaskEnds(outcome)

ViewSpec == Init /\ [][ViewNext]_vars

\* The worker thread of a started fetch task runs to its end.
ViewLiveSpec == ViewSpec /\ WF_vars(\E outcome \in FetchOutcomes : FetchTaskEnds(outcome))

\* A press that passes the validation.
ValidPress ==
    /\ PressGetQuotes
    /\ InputError(view.jd_quote_service) = ""

\* C28: every press of the Get Quotes button with valid inputs and a
\* configured service disables the button and starts one fetch task, no second
\* fetch starts while one is in flight, and the button is eventually enabled
\* again once the task has ended: it is never left disabled forever.
C28_ButtonReenabledAfterFetch ==
    /\ [][ValidPress => /\ ~get_quotes_button'.enabled
                        /\ fetch_task'.state = "running"
                        /\ fetch_task'.counter = fetch_task.counter + 1
                        /\ fetch_task.state # "running"]_vars
    /\ (~get_quotes_button.enabled) ~> get_quotes_button.enabled

\* ---------------------------------------------------------------------------
\* TaskManager: registration, cancellation and completion of workers
\* (app/core/threading.py).  run_task, run_async_task and cancel_task are
\* called on the thread that owns the manager; a worker runs on a pool thread
\* (Worker) or on its own thread (AsyncWorker); its finished signal is
\* connected to a lambda, which Qt runs queued on the owning thread.
\* ---------------------------------------------------------------------------

\* Tasks one manager is asked to start.
MaxTasks == 2

\* Values of int(time.time()) while the manager is in use.
Times == {0, 1}

\* f"task_{counter}_{time}": two ids are the same text only when both numbers
\* are the same.
task_id(counter, now) == <<"task", counter, now>>

\* An id no task was given.
UnknownId == <<"task", 0, 0>>

\* dict[key] = value
SetItem(dict, key, value) ==
    [k \in DOMAIN dict \cup {key} |-> IF k = key THEN value ELSE dict[k]]

\* del dict[key]
DelItem(dict, key) == [k \in DOMAIN dict \ {key} |-> dict[k]]

task_completed_Keeps(active, id) == active

\* _task_completed: the id is removed when it is registered.
task_completed(active, id) ==
    IF id \in DOMAIN active THEN DelItem(active, id) ELSE active

\* First half of run_task / run_async_task: _generate_task_id under the lock,
\* the worker is created, finished is connected to _task_completed and the
\* worker is put in active_tasks.
RunTaskRegister(class, now) ==
    /\ tm_call = NoManagerCall
    /\ tm_task_counter < MaxTasks
    /\ tm_task_counter' = tm_task_counter + 1
    /\ LET id == task_id(tm_task_counter + 1, now)
           index == Len(tm_workers) + 1
       IN  /\ tm_workers' = Append(tm_workers,
                 [id |-> id, class |-> class, state |-> "registered",
                  is_cancelled |-> FALSE])
           /\ tm_active_tasks' = SetItem(tm_active_tasks, id, index)
           /\ tm_call' = [op |-> IF class = "Worker" THEN "run_task" ELSE "run_async_task",
                          index |-> index]
    /\ UNCHANGED tm_returned
    /\ UNCHANGED notTaskVars

\* Second half: thread_pool.start(worker) / worker.start(), and the id is
\* returned.
RunTaskStart ==
    /\ tm_call # NoManagerCall
    /\ tm_workers' = [tm_workers EXCEPT ![tm_call.index].state = "started"]
    /\ tm_returned' = [op |-> tm_call.op, value |-> tm_workers[tm_call.index].id]
    /\ tm_call' = NoManagerCall
    /\ UNCHANGED <<tm_task_counter, tm_active_tasks>>
    /\ UNCHANGED notTaskVars

\* The worker's run() ends on its thread and finished is emitted (Worker.run:
\* in its finally; AsyncWorker: QThread emits it after run()).  The slot is
\* queued for the owning thread.
WorkerFinishes(index) ==
    /\ tm_workers[index].state = "started"
    /\ tm_workers' = [tm_workers EXCEPT ![index].state = "emitted"]
    /\ UNCHANGED <<tm_task_counter, tm_active_tasks, tm_call, tm_returned>>
    /\ UNCHANGED notTaskVars

\* The owning thread, back in its event loop, runs the queued slot:
\* _task_completed(task_id, task_name).
HandleFinished(index) ==
    /\ tm_call = NoManagerCall
    /\ tm_workers[index].state = "emitted"
    /\ tm_workers' = [tm_workers EXCEPT ![index].state = "handled"]
    /\ tm_active_tasks' = task_completed(tm_active_tasks, tm_workers[index].id)
    /\ UNCHANGED <<tm_task_counter, tm_call, tm_returned>>
    /\ UNCHANGED notTaskVars

\* cancel_task(task_id): a registered worker is told to cancel and True is
\* returned, otherwise False.
TmCancelTask(id) ==
    /\ tm_call = NoManagerCall
    /\ IF id \in DOMAIN tm_active_tasks
       THEN /\ tm_workers' = [tm_workers EXCEPT ![tm_active_tasks[id]].is_cancelled = TRUE]
            /\ tm_returned' = [op |-> "cancel_task", id |-> id, value |-> TRUE]
       ELSE /\ tm_returned' = [op |-> "cancel_task", id |-> id, value |-> FALSE]
            /\ UNCHANGED tm_workers
    /\ UNCHANGED <<tm_task_counter, tm_active_tasks, tm_call>>
    /\ UNCHANGED notTaskVars

\* get_active_task_count()
get_active_task_count == Cardinality(DOMAIN tm_active_tasks)

\* Ids cancel_task is called with: every id handed out, and one never handed out.
CancelIds == {tm_workers[i].id : i \in DOMAIN tm_workers} \cup {UnknownId}

TaskNext ==
    \/ \E class \in {"Worker", "AsyncWorker"}, now \in Times : RunTaskRegister(class, now)
    \/ RunTaskStart
    \/ \E index \in DOMAIN tm_workers : WorkerFinishes(index)
    \/ \E index \in DOMAIN tm_workers : HandleFinished(index)
    \/ \E id \in CancelIds : TmCancelTask(id)

TaskSpec == Init /\ [][TaskNext]_vars

\* Ids of the workers whose finished signal has not been handled.
Unhandled == {tm_workers[i].id : i \in {j \in DOMAIN tm_workers : tm_workers[j].state # "handled"}}

MaxAsyncTasks == 2

\* Ids wait_for_task is called with: every id a task can have, and 0, which no
\* task has.
AsyncIds == 0..MaxAsyncTasks

\* TaskResult(task_id, success, ...): result is set on success, error on failure.
TaskResult(id, success) ==
    [t |-> "TaskResult", task_id |-> id, success |-> success,
     result |-> IF success THEN "result" ELSE "None",
     error |-> IF success THEN "None" ELSE "Exception"]

\* The state of the task of an id, "unknown" when no task has the id.
TaskState(tasks, id) == IF id \in DOMAIN tasks THEN tasks[id].state ELSE "unknown"

\* A wait_for_task call that has ended: the id it was given, whether its
\* wait timed out, how it ended, and the state its task was left in.
WaitDone(id, timed_out, outcome, tasks) ==
    [state |-> "done", id |-> id, timed_out |-> timed_out, outcome |-> outcome,
     task |-> TaskState(tasks, id)]

\* dict.get(key): None when the key is missing.
DictGet(dict, key) == IF key \in DOMAIN dict THEN dict[key] ELSE PyNone

\* run_async_task / run_sync_task: the id is generated, wrapped_task is made a
\* task and put in active_tasks.
AtmRunTask ==
    /\ Len(atm_tasks) < MaxAsyncTasks
    /\ atm_tasks' = Append(atm_tasks, [state |-> "pending"])
    /\ atm_active_tasks' = atm_active_tasks \cup {Len(atm_tasks) + 1}
    /\ UNCHANGED <<atm_task_results, atm_waits>>
    /\ UNCHANGED notAsyncVars

\* wrapped_task when its function returns, or raises an Exception: the
\* TaskResult is recorded and, in the finally, the id leaves active_tasks.
AtmTaskEnds(id, success) ==
    /\ atm_tasks[id].state = "pending"
    /\ atm_tasks' = [atm_tasks EXCEPT ![id].state = IF success THEN "returned" ELSE "raised"]
    /\ atm_task_results' = SetItem(atm_task_results, id, TaskResult(id, success))
    /\ atm_active_tasks' = atm_active_tasks \ {id}
    /\ UNCHANGED atm_waits
    /\ UNCHANGED notAsyncVars

\* wait_for_task up to its await: an id that is not active gets
\* task_results.get(task_id) at once, an active one is awaited through
\* asyncio.wait_for.
WaitForTask(w, id, timeout) ==
    /\ atm_waits[w].state # "waiting"
    /\ atm_waits' = [atm_waits EXCEPT ![w] =
         IF id \in atm_active_tasks
         THEN [state |-> "waiting", id |-> id, timeout |-> timeout]
         ELSE WaitDone(id, FALSE, Returns(DictGet(atm_task_results, id)), atm_tasks)]
    /\ UNCHANGED <<atm_tasks, atm_active_tasks, atm_task_results>>
    /\ UNCHANGED notAsyncVars

\* What asyncio.wait_for ends with once the awaited task is done: its result,
\* or the exception it raised, or CancelledError when it was cancelled.  Only
\* TimeoutError is caught by wait_for_task.
WaitOutcome(id) ==
    IF atm_tasks[id].state = "returned" THEN Returns(DictGet(atm_task_results, id))
    ELSE IF atm_tasks[id].state = "raised" THEN Raises("Exception")
    ELSE Raises("CancelledError")

\* The awaited task is done and the waiter resumes.
WaitResumes(w) ==
    /\ atm_waits[w].state = "waiting"
    /\ atm_tasks[atm_waits[w].id].state # "pending"
    /\ atm_waits' = [atm_waits EXCEPT ![w] =
         WaitDone(atm_waits[w].id, FALSE, WaitOutcome(atm_waits[w].id), atm_tasks)]
    /\ UNCHANGED <<atm_tasks, atm_active_tasks, atm_task_results>>
    /\ UNCHANGED notAsyncVars

\* The timeout passes first: asyncio.wait_for cancels the awaited task and
\* raises TimeoutError.  CancelledError is no Exception, so wrapped_task
\* records no TaskResult; its finally takes the id out of active_tasks.
\* wait_for_task returns None.
WaitTimesOut(w) ==
    /\ atm_waits[w].state = "waiting"
    /\ atm_waits[w].timeout = "finite"
    /\ atm_tasks[atm_waits[w].id].state = "pending"
    /\ atm_tasks' = [atm_tasks EXCEPT ![atm_waits[w].id].state = "cancelled"]
    /\ atm_active_tasks' = atm_active_tasks \ {atm_waits[w].id}
    /\ atm_waits' = [atm_waits EXCEPT ![w] =
         WaitDone(atm_waits[w].id, TRUE, Returns(PyNone), atm_tasks')]
    /\ UNCHANGED atm_task_results
    /\ UNCHANGED notAsyncVars

AsyncNext ==
    \/ AtmRunTask
    \/ \E id \in DOMAIN atm_tasks, success \in BOOLEAN : AtmTaskEnds(id, success)
    \/ \E w \in Waiters, id \in AsyncIds, timeout \in {"None", "finite"} :
           WaitForTask(w, id, timeout)
    \/ \E w \in Waiters : WaitResumes(w)
    \/ \E w \in Waiters : WaitTimesOut(w)

AsyncSpec == Init /\ [][AsyncNext]_vars

\* The task of this id has ended by returning or by raising.
AtmFinished(id) ==
    /\ id \in DOMAIN atm_tasks
    /\ atm_tasks[id].state \in {"returned", "raised"}

\* C30: a wait_for_task that did not time out on a task that has finished
\* returns the TaskResult recorded for it, success = true if the function
\* returned and success = false if it raised; None is returned only after a
\* timeout or for an unknown id; a wait that timed out leaves its task
\* running; and a finished task is not in active_tasks.
C30_WaitReturnsRecordedResult ==
    /\ \A w \in Waiters : atm_waits[w].state = "done" =>
         /\ (atm_waits[w].task \in {"returned", "raised"} /\ ~atm_waits[w].timed_out)
                => atm_waits[w].outcome =
                       Returns(TaskResult(atm_waits[w].id, atm_waits[w].task = "returned"))
         /\ atm_waits[w].outcome = Returns(PyNone)
                => \/ atm_waits[w].timed_out
                   \/ atm_waits[w].task = "unknown"
         /\ atm_waits[w].timed_out => atm_waits[w].task = "pending"
    /\ \A id \in DOMAIN atm_tasks : AtmFinished(id) => id \notin atm_active_tasks

====
